---- MODULE Spec2Model ----
\* A model of torrent::TrackerList (src/src/torrent/tracker_list.cc): the ordered,
\* grouped list of trackers, the sending of announce and scrape requests, and the
\* handling of their results.
EXTENDS Integers, Sequences, FiniteSets, TLC

\* ------------------------------------------------------------------ bounds

NumTrackers == 3      \* tracker objects that exist
MaxGroup == 2         \* groups are 0..MaxGroup
NumRequest == 2       \* trackers that requests are sent to in Spec
MaxCount == 2         \* the counters of a TrackerState are followed up to here
MaxPeriods == 2       \* the clock is followed over this many scrape periods
TicksPerSecond == 2   \* resolution of the clock below one second
NumAnnounce == 2      \* trackers in the list in SpecAnnounce
MaxFailed == 3        \* failed_counter is followed up to here
MaxAddr == 2          \* peer addresses are 1..MaxAddr
MaxListLen == 2       \* length of the address list a tracker returns
MaxNewPeers == 1      \* what the host's success slot returns
MaxFindStep == 2      \* timestamps in SpecFind are 0, 30, ..., 30 * MaxFindStep seconds
NumScrape == 1        \* trackers that scrapes are sent to in SpecScrape
MaxRate == 2
MaxQuota == 2
NumPieces == 2        \* chunk_total(): the pieces of the torrent are 0..NumPieces - 1

\* The largest block a remote may request: 1 << 17.
MaxBlockLength == 131072

Trackers == 1..NumTrackers
Groups == 0..MaxGroup

VARIABLES
  list,        \* TrackerList itself: the vector of tracker pointers, in order
  group,       \* Tracker::group() of every tracker object
  worker,      \* every tracker's TrackerWorker: requests in flight, usable, scrapable
  state,       \* every tracker's TrackerState: latest event, counters, timestamps
  cachedTime,  \* the global clock cachedTime, in ticks (TicksPerSecond to a second)
  slots,       \* which host slots (m_slot_success, ...) are set
  op,          \* the operation that ran last and its arguments
  ret,         \* what that operation returned (an iterator is a position, end() is Len + 1)
  err,         \* the exception that operation threw, "" when none
  calls,       \* the calls that operation made on the worker and on host slots, in order
  seen,        \* what the host's success slot was handed and could observe when called
  hist,        \* history: failures since the last success, last success of a group, scrape times
  pc,          \* one PeerConnectionBase and the collaborators it calls (poller, throttles, ...)
  thread       \* the handler the main thread is inside, its position, and every worker's lock

vars == <<list, group, worker, state, cachedTime, slots, op, ret, err, calls, seen, hist, pc, thread>>

orderVars == <<list, group>>
trackerVars == <<worker, state>>
hostVars == <<slots, seen>>

\* ------------------------------------------------------------------ helpers

Range(s) == {s[i] : i \in 1..Len(s)}

\* end(): the position one past the last element.
End(l) == Len(l) + 1

\* std::iter_swap / std::swap of two elements of the vector.
Swap(l, i, j) == [l EXCEPT ![i] = l[j], ![j] = l[i]]

\* base_type::insert(pos, t): t is put at position pos, the rest moves back.
InsertAt(l, pos, t) == SubSeq(l, 1, pos - 1) \o <<t>> \o SubSeq(l, pos, Len(l))

\* std::find(begin(), end(), tracker)
find(l, t) ==
  IF \E i \in 1..Len(l) : l[i] = t
  THEN CHOOSE i \in 1..Len(l) : l[i] = t /\ \A j \in 1..(i - 1) : l[j] # t
  ELSE End(l)

\* ------------------------------------------------------------------ list order

\* std::find_if(begin(), end(), group <= t->group())
begin_group(l, g) ==
  IF \E i \in 1..Len(l) : g <= group[l[i]]
  THEN CHOOSE i \in 1..Len(l) :
         g <= group[l[i]] /\ \A j \in 1..(i - 1) : ~(g <= group[l[j]])
  ELSE End(l)

\* The position after the last tracker of group g (declared in tracker_list.h).
end_group(l, g) == begin_group(l, g + 1)

\* A plausible slip: the new tracker is appended to the whole list.
insert_push_back(l, g, t) == [list |-> Append(l, t), ret |-> End(l)]

\* TrackerList::insert: the position the tracker gets and the list with it.
insert(l, g, t) ==
  LET itr == end_group(l, g)
  IN  [list |-> InsertAt(l, itr, t), ret |-> itr]

\* A plausible slip: std::swap(first, itr) swaps the two iterators, not the
\* trackers they point at.
promote_swap_iterators(l, itr) ==
  LET first == begin_group(l, group[l[itr]])
  IN  IF first = End(l)
      THEN [list |-> l, ret |-> 0, threw |-> TRUE]
      ELSE [list |-> l, ret |-> itr, threw |-> FALSE]

\* A plausible slip: promote returns the iterator it was given.
promote_return_itr(l, itr) ==
  LET first == begin_group(l, group[l[itr]])
  IN  IF first = End(l)
      THEN [list |-> l, ret |-> 0, threw |-> TRUE]
      ELSE [list |-> Swap(l, first, itr), ret |-> itr, threw |-> FALSE]

\* A plausible slip: promote swaps with the head of the whole list.
promote_to_begin(l, itr) == [list |-> Swap(l, 1, itr), ret |-> 1, threw |-> FALSE]

\* TrackerList::promote
promote(l, itr) ==
  LET first == begin_group(l, group[l[itr]])
  IN  IF first = End(l)
      THEN [list |-> l, ret |-> 0, threw |-> TRUE]
      ELSE [list |-> Swap(l, first, itr), ret |-> first, threw |-> FALSE]

\* A plausible slip: if for while, so that only the first two trackers of the
\* group change places.
cycle_loop_once(l, itr, prev, g) ==
  IF itr # End(l) /\ group[l[itr]] = g THEN Swap(l, itr, prev) ELSE l

\* The while loop of cycle_group, entered with itr already advanced past prev.
RECURSIVE cycle_loop(_, _, _, _)
cycle_loop(l, itr, prev, g) ==
  IF itr # End(l) /\ group[l[itr]] = g
  THEN cycle_loop(Swap(l, itr, prev), itr + 1, itr, g)
  ELSE l

\* TrackerList::cycle_group
\* A plausible slip: the loop does not stop at the end of the group.
RECURSIVE cycle_loop_to_end(_, _, _)
cycle_loop_to_end(l, itr, prev) ==
  IF itr # End(l) THEN cycle_loop_to_end(Swap(l, itr, prev), itr + 1, itr) ELSE l

cycle_group_to_end(l, g) ==
  LET itr == begin_group(l, g)
  IN  IF itr = End(l) \/ group[l[itr]] # g
      THEN l
      ELSE cycle_loop_to_end(l, itr + 1, itr)

cycle_group(l, g) ==
  LET itr == begin_group(l, g)
  IN  IF itr = End(l) \/ group[l[itr]] # g
      THEN l
      ELSE cycle_loop(l, itr + 1, itr, g)

\* std::shuffle(first, last, rng): every arrangement of [first, last) is possible.
Shuffles(l, first, last) ==
  LET idx == first..(last - 1)
      perms == {p \in [idx -> idx] : \A i \in idx : \E j \in idx : p[j] = i}
  IN  {[i \in 1..Len(l) |-> IF i \in idx THEN l[p[i]] ELSE l[i]] : p \in perms}

\* The while loop of randomize_group_entries from position itr: the lists it can
\* leave behind.  (A range that does not advance would not end; it cannot
\* arise on a grouped list.)
RECURSIVE randomize_from(_, _)
randomize_from(l, itr) ==
  IF itr = End(l)
  THEN {l}
  ELSE LET tmp == end_group(l, group[l[itr]])
       IN  IF tmp <= itr
           THEN {l}
           ELSE UNION {randomize_from(s, tmp) : s \in Shuffles(l, itr, tmp)}

\* TrackerList::randomize_group_entries
randomize_group_entries(l) == randomize_from(l, 1)

\* ------------------------------------------------------------------ clock

\* rak::timer::seconds(): whole seconds, the rest of the tick count is dropped.
seconds(c) == c \div TicksPerSecond

\* rak::timer::from_seconds()
from_seconds(s) == s * TicksPerSecond

\* The first and the last tick of a second.
Ticks == {0, TicksPerSecond - 1}

\* The instants the clock is followed at: the first second of every period.
Times == {from_seconds(10 * 60) * b + a : a \in Ticks, b \in 0..MaxPeriods}

\* ------------------------------------------------------------------ tracker and worker

Events == {"NONE", "COMPLETED", "STARTED", "STOPPED", "SCRAPE"}
EventInputs == {"NONE", "STARTED", "SCRAPE"}

\* A TrackerState after construction.
DefaultState ==
  [latest_event |-> "NONE",
   failed_counter |-> 0, failed_time_last |-> 0,
   success_counter |-> 0, success_time_last |-> 0,
   scrape_counter |-> 0, scrape_time_last |-> 0,
   latest_sum_peers |-> 0, latest_new_peers |-> 0,
   normal_interval |-> 0]

\* A TrackerWorker after construction: nothing in flight, enabled.
DefaultWorker == [inflight |-> 0, usable |-> TRUE, scrapable |-> TRUE]

\* Tracker::is_busy(): the worker has a request in flight.
is_busy(w) == w.inflight > 0

\* Tracker::is_usable()
is_usable(w) == w.usable

\* Tracker::is_scrapable()
is_scrapable(w) == w.scrapable

\* TrackerWorker::close(): whatever is in flight is dropped.
worker_close(w, s) == [worker |-> [w EXCEPT !.inflight = 0], state |-> s]

\* TrackerWorker::send_event(): an announce goes out and is the latest event.
worker_send_event(w, s, e) ==
  [worker |-> [w EXCEPT !.inflight = @ + 1], state |-> [s EXCEPT !.latest_event = e]]

\* TrackerWorker::send_scrape(): a scrape goes out and is the latest event.
worker_send_scrape(w, s) ==
  [worker |-> [w EXCEPT !.inflight = @ + 1], state |-> [s EXCEPT !.latest_event = "SCRAPE"]]

\* A plausible slip: the busy check is left out.
send_event_unchecked(w, s, e) ==
  IF ~is_usable(w) \/ e = "SCRAPE"
  THEN [worker |-> w, state |-> s, calls |-> <<>>]
  ELSE LET r == worker_send_event(w, s, e)
       IN  [worker |-> r.worker, state |-> r.state, calls |-> <<"send_event">>]

\* A plausible slip: a busy tracker is closed whatever it is busy with.
send_event_close_any(w, s, e) ==
  IF ~is_usable(w) \/ e = "SCRAPE"
  THEN [worker |-> w, state |-> s, calls |-> <<>>]
  ELSE LET c == IF is_busy(w) THEN worker_close(w, s) ELSE [worker |-> w, state |-> s]
           r == worker_send_event(c.worker, c.state, e)
       IN  [worker |-> r.worker, state |-> r.state,
            calls |-> (IF is_busy(w) THEN <<"close">> ELSE <<>>) \o <<"send_event">>]

\* TrackerList::send_event on a tracker with worker w and state s.
send_event(w, s, e) ==
  IF ~is_usable(w) \/ e = "SCRAPE"
  THEN [worker |-> w, state |-> s, calls |-> <<>>]
  ELSE IF is_busy(w) /\ s.latest_event # "SCRAPE"
  THEN [worker |-> w, state |-> s, calls |-> <<>>]
  ELSE LET c == IF is_busy(w) THEN worker_close(w, s) ELSE [worker |-> w, state |-> s]
           r == worker_send_event(c.worker, c.state, e)
       IN  [worker |-> r.worker, state |-> r.state,
            calls |-> (IF is_busy(w) THEN <<"close">> ELSE <<>>) \o <<"send_event">>]

\* A plausible slip: the ten minutes are not checked.
send_scrape_any_time(w, s, now) ==
  IF is_busy(w) \/ ~is_usable(w)
  THEN [worker |-> w, state |-> s, calls |-> <<>>]
  ELSE IF ~is_scrapable(w)
  THEN [worker |-> w, state |-> s, calls |-> <<>>]
  ELSE LET r == worker_send_scrape(w, s)
       IN  [worker |-> r.worker, state |-> r.state, calls |-> <<"send_scrape">>]

\* TrackerList::send_scrape at time now (cachedTime).
send_scrape(w, s, now) ==
  IF is_busy(w) \/ ~is_usable(w)
  THEN [worker |-> w, state |-> s, calls |-> <<>>]
  ELSE IF ~is_scrapable(w)
  THEN [worker |-> w, state |-> s, calls |-> <<>>]
  ELSE IF from_seconds(s.scrape_time_last) + from_seconds(10 * 60) > now
  THEN [worker |-> w, state |-> s, calls |-> <<>>]
  ELSE LET r == worker_send_scrape(w, s)
       IN  [worker |-> r.worker, state |-> r.state, calls |-> <<"send_scrape">>]

\* A plausible slip: a tracker that is still busy passes the guard.
receive_valid_listed(l, t, w) == ~(find(l, t) = End(l))

\* The guard of every receive_*: the tracker is in the list and not busy.
receive_valid(l, t, w) == ~(find(l, t) = End(l) \/ is_busy(w))

\* The statistics block of receive_scrape_success, under the worker's lock.
scrape_success_state(s, now) ==
  [s EXCEPT !.scrape_time_last = seconds(now), !.scrape_counter = @ + 1]

\* TrackerWorker::disown(): the request is detached and no longer the tracker's.
worker_disown(w, s) == [worker |-> [w EXCEPT !.inflight = 0], state |-> s]

\* ------------------------------------------------------------------ announce results

\* AddressList::sort(), as an insertion sort on the addresses' order.
RECURSIVE sort_insert(_, _)
sort_insert(sorted, x) ==
  IF sorted = <<>> THEN <<x>>
  ELSE IF x < Head(sorted) THEN <<x>> \o sorted
  ELSE <<Head(sorted)>> \o sort_insert(Tail(sorted), x)

RECURSIVE sort(_)
sort(l) == IF l = <<>> THEN <<>> ELSE sort_insert(sort(SubSeq(l, 1, Len(l) - 1)), l[Len(l)])

\* A plausible slip: the duplicates are left in.
unique_kept(l) == l

\* l->erase(std::unique(...), l->end()): of each run of equal neighbours the
\* first is kept.
RECURSIVE unique(_)
unique(l) ==
  IF Len(l) <= 1 THEN l
  ELSE IF l[1] = l[2] THEN unique(Tail(l))
  ELSE <<l[1]>> \o unique(Tail(l))

\* A plausible slip: the failures are not forgotten on a success.
success_state_keep_failed(s, now, size) ==
  [s EXCEPT !.success_time_last = seconds(now),
            !.success_counter = @ + 1,
            !.latest_sum_peers = size]

\* The first statistics block of receive_success, under the worker's lock.
success_state(s, now, size) ==
  [s EXCEPT !.success_time_last = seconds(now),
            !.success_counter = @ + 1,
            !.failed_counter = 0,
            !.latest_sum_peers = size]

\* The statistics block of receive_failed, under the worker's lock.
failed_state(s, now) ==
  [s EXCEPT !.failed_time_last = seconds(now), !.failed_counter = @ + 1]

\* TrackerList::receive_success past its guard, for tracker t with state s and
\* address list al; slot: m_slot_success is set; new_peers: what it returns.
\* seen is what the slot is handed and finds when it is called.
receive_success(l, t, s, now, al, slot, new_peers) ==
  LET p == promote(l, find(l, t))
      addrs == unique(sort(al))
      s1 == success_state(s, now, Len(addrs))
  IN  IF p.threw
      THEN [list |-> l, state |-> s, threw |-> TRUE, calls |-> <<>>, seen |-> [called |-> FALSE]]
      ELSE IF ~slot
      THEN [list |-> p.list, state |-> s1, threw |-> FALSE,
            calls |-> <<"lock", "unlock">>, seen |-> [called |-> FALSE]]
      ELSE [list |-> p.list,
            state |-> [s1 EXCEPT !.latest_new_peers = new_peers],
            threw |-> FALSE,
            calls |-> <<"lock", "unlock", "slot_success", "lock", "unlock">>,
            seen |-> [called |-> TRUE, tracker |-> t, addrs |-> addrs,
                      list |-> p.list, state |-> s1]]

\* ------------------------------------------------------------------ find_next_to_request

Min(a, b) == IF a < b THEN a ELSE b

\* Tracker::can_request_state(): usable and not busy with an announce.
can_request_state(w, s) == ~(is_busy(w) /\ s.latest_event # "SCRAPE") /\ is_usable(w)

\* TrackerState::failed_time_next(): the backoff after failed_counter failures.
failed_time_next(s) == s.failed_time_last + Min(30 * (2 ^ s.failed_counter), 3600)

\* TrackerState::success_time_next(): the tracker's interval after the last success.
success_time_next(s) == s.success_time_last + s.normal_interval

\* std::find_if(itr, end(), can_request_state)
find_can_request(l, itr) ==
  IF \E i \in itr..Len(l) : can_request_state(worker[l[i]], state[l[i]])
  THEN CHOOSE i \in itr..Len(l) :
         /\ can_request_state(worker[l[i]], state[l[i]])
         /\ \A j \in itr..(i - 1) : ~can_request_state(worker[l[j]], state[l[j]])
  ELSE End(l)

\* A plausible slip: the loop goes on after the first tracker without failures.
RECURSIVE find_next_loop_no_break(_, _, _)
find_next_loop_no_break(l, itr, preferred) ==
  LET nxt == itr + 1
  IN  IF nxt = End(l) THEN preferred
      ELSE IF ~can_request_state(worker[l[nxt]], state[l[nxt]])
      THEN find_next_loop_no_break(l, nxt, preferred)
      ELSE IF state[l[nxt]].failed_counter # 0
      THEN find_next_loop_no_break(l, nxt,
             IF failed_time_next(state[l[nxt]]) < failed_time_next(state[l[preferred]])
             THEN nxt ELSE preferred)
      ELSE find_next_loop_no_break(l, nxt,
             IF success_time_next(state[l[nxt]]) < failed_time_next(state[l[preferred]])
             THEN nxt ELSE preferred)

\* The while loop of find_next_to_request: itr is the position examined last,
\* preferred the choice so far (a tracker with failures).
RECURSIVE find_next_loop(_, _, _)
find_next_loop(l, itr, preferred) ==
  LET nxt == itr + 1
  IN  IF nxt = End(l) THEN preferred
      ELSE IF ~can_request_state(worker[l[nxt]], state[l[nxt]])
      THEN find_next_loop(l, nxt, preferred)
      ELSE IF state[l[nxt]].failed_counter # 0
      THEN find_next_loop(l, nxt,
             IF failed_time_next(state[l[nxt]]) < failed_time_next(state[l[preferred]])
             THEN nxt ELSE preferred)
      ELSE IF success_time_next(state[l[nxt]]) < failed_time_next(state[l[preferred]])
      THEN nxt
      ELSE preferred

\* A plausible slip: a first candidate without failures is not returned at once.
find_next_to_request_no_return(l, itr) ==
  LET preferred == find_can_request(l, itr)
  IN  IF preferred = End(l) THEN End(l)
      ELSE find_next_loop(l, preferred, preferred)

\* TrackerList::find_next_to_request
find_next_to_request(l, itr) ==
  LET preferred == find_can_request(l, itr)
  IN  IF preferred = End(l) THEN End(l)
      ELSE IF state[l[preferred]].failed_counter = 0 THEN preferred
      ELSE find_next_loop(l, preferred, preferred)

\* ------------------------------------------------------------------ common state

NoOp == [name |-> "none", t |-> 0, a |-> 0]
NoSeen == [called |-> FALSE]

NoHist ==
  [fails |-> [t \in Trackers |-> 0],
   lastSucc |-> [g \in Groups |-> 0],
   scrapeSent |-> [t \in Trackers |-> -1],
   scrapeOk |-> [t \in Trackers |-> -1]]

AllSlots ==
  [success |-> TRUE, failed |-> TRUE, scrape_success |-> TRUE, scrape_failed |-> TRUE,
   tracker_enabled |-> TRUE]

\* No peer connection exists.
NoPeer == [fd |-> FALSE]

\* The main thread is inside no handler and no worker's lock is taken.
NoThread ==
  [handler |-> "", tracker |-> 0, at |-> 0, l |-> <<>>, new_peers |-> 0,
   lock |-> [t \in Trackers |-> "free"]]

InitLog ==
  /\ thread = NoThread
  /\ op = NoOp
  /\ ret = 0
  /\ err = ""
  /\ calls = <<>>
  /\ seen = NoSeen
  /\ hist = NoHist

\* ------------------------------------------------------------------ SpecOrder
\* The operations that decide the order of the list.

InitOrder ==
  /\ list = <<>>
  /\ group = [t \in Trackers |-> 0]
  /\ worker = [t \in Trackers |-> DefaultWorker]
  /\ state = [t \in Trackers |-> DefaultState]
  /\ cachedTime = 0
  /\ slots \in {[AllSlots EXCEPT !.tracker_enabled = b] : b \in BOOLEAN}
  /\ InitLog
  /\ pc = NoPeer

\* insert(group, tracker) of a tracker object that is not yet in the list.
Insert(g, t) ==
  /\ t \notin Range(list)
  /\ group' = [group EXCEPT ![t] = g]
  /\ LET r == insert(list, g, t)
     IN  /\ list' = r.list
         /\ ret' = r.ret
  /\ op' = [name |-> "insert", t |-> t, a |-> g]
  /\ err' = ""
  /\ calls' = IF slots.tracker_enabled THEN <<"slot_tracker_enabled">> ELSE <<>>
  /\ UNCHANGED <<trackerVars, cachedTime, hostVars, hist, pc, thread>>

Promote(itr) ==
  /\ itr \in 1..Len(list)
  /\ LET r == promote(list, itr)
     IN  /\ list' = r.list
         /\ ret' = r.ret
         /\ err' = IF r.threw THEN "internal_error" ELSE ""
  /\ op' = [name |-> "promote", t |-> list[itr], a |-> itr]
  /\ calls' = <<>>
  /\ UNCHANGED <<group, trackerVars, cachedTime, hostVars, hist, pc, thread>>

CycleGroup(g) ==
  /\ list' = cycle_group(list, g)
  /\ ret' = 0
  /\ op' = [name |-> "cycle_group", t |-> 0, a |-> g]
  /\ err' = ""
  /\ calls' = <<>>
  /\ UNCHANGED <<group, trackerVars, cachedTime, hostVars, hist, pc, thread>>

RandomizeGroupEntries ==
  /\ list' \in randomize_group_entries(list)
  /\ ret' = 0
  /\ op' = [name |-> "randomize_group_entries", t |-> 0, a |-> 0]
  /\ err' = ""
  /\ calls' = <<>>
  /\ UNCHANGED <<group, trackerVars, cachedTime, hostVars, hist, pc, thread>>

NextOrder ==
  \/ \E g \in Groups, t \in Trackers : Insert(g, t)
  \/ \E itr \in 1..NumTrackers : Promote(itr)
  \/ \E g \in Groups : CycleGroup(g)
  \/ RandomizeGroupEntries

SpecOrder == InitOrder /\ [][NextOrder]_vars

\* ------------------------------------------------------------------ Spec
\* Sending announces and scrapes to the trackers of a list, closing and
\* disowning them, and scrapes that fail.

RequestTrackers == 1..NumRequest

\* A list of the trackers 1..n in one group, none of them requested from yet;
\* flags: what is_usable() and is_scrapable() of a tracker can be.
InitRequest(n, flags) ==
  /\ list = [i \in 1..n |-> i]
  /\ group = [t \in Trackers |-> 0]
  /\ worker \in {[t \in Trackers |->
                    IF t \in 1..n
                    THEN [DefaultWorker EXCEPT !.usable = u[t], !.scrapable = c[t]]
                    ELSE DefaultWorker] :
                 u \in [1..n -> flags], c \in [1..n -> flags]}
  /\ state = [t \in Trackers |-> DefaultState]
  /\ cachedTime \in Times
  /\ slots = AllSlots
  /\ InitLog
  /\ pc = NoPeer

Init == InitRequest(NumRequest, BOOLEAN)

SendEvent(t, e) ==
  /\ LET r == send_event(worker[t], state[t], e)
     IN  /\ worker' = [worker EXCEPT ![t] = r.worker]
         /\ state' = [state EXCEPT ![t] = r.state]
         /\ calls' = r.calls
  /\ op' = [name |-> "send_event", t |-> t, a |-> e]
  /\ ret' = 0
  /\ err' = ""
  /\ UNCHANGED <<orderVars, cachedTime, hostVars, hist, pc, thread>>

SendScrape(t) ==
  /\ LET r == send_scrape(worker[t], state[t], cachedTime)
     IN  /\ worker' = [worker EXCEPT ![t] = r.worker]
         /\ state' = [state EXCEPT ![t] = r.state]
         /\ calls' = r.calls
         /\ hist' = IF r.calls # <<>>
                    THEN [hist EXCEPT !.scrapeSent[t] = cachedTime]
                    ELSE hist
  /\ op' = [name |-> "send_scrape", t |-> t, a |-> 0]
  /\ ret' = 0
  /\ err' = ""
  /\ UNCHANGED <<orderVars, cachedTime, hostVars, pc, thread>>

\* TrackerList::close_all_excluding: every listed tracker whose latest event is
\* not in the bitmap is closed.
CloseAllExcluding(bitmap) ==
  /\ worker' = [t \in Trackers |->
                  IF t \in Range(list) /\ state[t].latest_event \notin bitmap
                  THEN worker_close(worker[t], state[t]).worker
                  ELSE worker[t]]
  /\ op' = [name |-> "close_all_excluding", t |-> 0, a |-> bitmap]
  /\ ret' = 0
  /\ err' = ""
  /\ calls' = <<>>
  /\ UNCHANGED <<orderVars, state, cachedTime, hostVars, hist, pc, thread>>

\* TrackerList::disown_all_including: every listed tracker whose latest event
\* is in the bitmap is disowned.
DisownAllIncluding(bitmap) ==
  /\ worker' = [t \in Trackers |->
                  IF t \in Range(list) /\ state[t].latest_event \in bitmap
                  THEN worker_disown(worker[t], state[t]).worker
                  ELSE worker[t]]
  /\ op' = [name |-> "disown_all_including", t |-> 0, a |-> bitmap]
  /\ ret' = 0
  /\ err' = ""
  /\ calls' = <<>>
  /\ UNCHANGED <<orderVars, state, cachedTime, hostVars, hist, pc, thread>>

\* A result reaches the list through the worker's slot.  done: the worker's
\* request has just ended, so it is no longer busy when it calls the slot;
\* otherwise the slot is called on the worker as it stands.
Reported(t, done) == IF done THEN [worker[t] EXCEPT !.inflight = @ - 1] ELSE worker[t]

ReceiveScrapeSuccess(t, done) ==
  /\ done => (is_busy(worker[t]) /\ state[t].latest_event = "SCRAPE")
  /\ state[t].scrape_counter < MaxCount
  /\ worker' = [worker EXCEPT ![t] = Reported(t, done)]
  /\ IF ~receive_valid(list, t, Reported(t, done))
     THEN /\ err' = "internal_error"
          /\ calls' = <<>>
          /\ UNCHANGED <<state, hist>>
     ELSE /\ err' = ""
          /\ state' = [state EXCEPT ![t] = scrape_success_state(state[t], cachedTime)]
          /\ calls' = <<"lock", "unlock">> \o
                      (IF slots.scrape_success THEN <<"slot_scrape_success">> ELSE <<>>)
          /\ hist' = [hist EXCEPT !.scrapeOk[t] = cachedTime]
  /\ op' = [name |-> "receive_scrape_success", t |-> t, a |-> done]
  /\ ret' = 0
  /\ UNCHANGED <<orderVars, cachedTime, hostVars, pc, thread>>

ReceiveScrapeFailed(t, done) ==
  /\ done => (is_busy(worker[t]) /\ state[t].latest_event = "SCRAPE")
  /\ worker' = [worker EXCEPT ![t] = Reported(t, done)]
  /\ IF ~receive_valid(list, t, Reported(t, done))
     THEN /\ err' = "internal_error"
          /\ calls' = <<>>
     ELSE /\ err' = ""
          /\ calls' = IF slots.scrape_failed THEN <<"slot_scrape_failed">> ELSE <<>>
  /\ op' = [name |-> "receive_scrape_failed", t |-> t, a |-> done]
  /\ ret' = 0
  /\ UNCHANGED <<orderVars, state, cachedTime, hostVars, hist, pc, thread>>

\* The address lists a tracker can answer with.
AddressLists == UNION {[1..n -> 1..MaxAddr] : n \in 0..MaxListLen}

ReceiveSuccess(t, done, al, new_peers) ==
  /\ done => (is_busy(worker[t]) /\ state[t].latest_event # "SCRAPE")
  /\ state[t].success_counter < MaxCount
  /\ worker' = [worker EXCEPT ![t] = Reported(t, done)]
  /\ IF ~receive_valid(list, t, Reported(t, done))
     THEN /\ err' = "internal_error"
          /\ calls' = <<>>
          /\ seen' = NoSeen
          /\ UNCHANGED <<list, state, hist>>
     ELSE LET r == receive_success(list, t, state[t], cachedTime, al, slots.success, new_peers)
          IN  /\ err' = IF r.threw THEN "internal_error" ELSE ""
              /\ list' = r.list
              /\ state' = [state EXCEPT ![t] = r.state]
              /\ calls' = r.calls
              /\ seen' = r.seen
              /\ hist' = IF r.threw THEN hist
                         ELSE [hist EXCEPT !.fails[t] = 0, !.lastSucc[group[t]] = t]
  /\ op' = [name |-> "receive_success", t |-> t,
            a |-> [done |-> done, al |-> al, new_peers |-> new_peers]]
  /\ ret' = 0
  /\ UNCHANGED <<group, cachedTime, slots, pc, thread>>

ReceiveFailed(t, done) ==
  /\ done => (is_busy(worker[t]) /\ state[t].latest_event # "SCRAPE")
  /\ state[t].failed_counter < MaxFailed
  /\ worker' = [worker EXCEPT ![t] = Reported(t, done)]
  /\ IF ~receive_valid(list, t, Reported(t, done))
     THEN /\ err' = "internal_error"
          /\ calls' = <<>>
          /\ UNCHANGED <<state, hist>>
     ELSE /\ err' = ""
          /\ state' = [state EXCEPT ![t] = failed_state(state[t], cachedTime)]
          /\ calls' = <<"lock", "unlock">> \o
                      (IF slots.failed THEN <<"slot_failed">> ELSE <<>>)
          /\ hist' = [hist EXCEPT !.fails[t] = @ + 1]
  /\ op' = [name |-> "receive_failed", t |-> t, a |-> done]
  /\ ret' = 0
  /\ seen' = NoSeen
  /\ UNCHANGED <<orderVars, cachedTime, slots, pc, thread>>

\* Time passes between two operations.
Tick ==
  /\ \E now \in Times : now > cachedTime /\ cachedTime' = now
  /\ op' = [name |-> "tick", t |-> 0, a |-> 0]
  /\ ret' = 0
  /\ err' = ""
  /\ calls' = <<>>
  /\ UNCHANGED <<orderVars, trackerVars, hostVars, hist, pc, thread>>

Next ==
  \/ \E t \in RequestTrackers, e \in EventInputs : SendEvent(t, e)
  \/ \E t \in RequestTrackers : SendScrape(t)
  \/ \E bitmap \in SUBSET {"STARTED", "SCRAPE"} : CloseAllExcluding(bitmap)
  \/ \E bitmap \in SUBSET {"STARTED", "SCRAPE"} : DisownAllIncluding(bitmap)
  \/ \E t \in RequestTrackers, done \in BOOLEAN : ReceiveScrapeFailed(t, done)

Spec == Init /\ [][Next]_vars

\* ------------------------------------------------------------------ SpecScrape
\* Scrape requests, their results and the passing of time.

ScrapeTrackers == 1..NumScrape

\* The trackers scraped are usable and can be scraped.
InitScrape == InitRequest(NumScrape, {TRUE})

NextScrape ==
  \/ \E t \in ScrapeTrackers : SendScrape(t)
  \/ \E t \in ScrapeTrackers, done \in BOOLEAN : ReceiveScrapeSuccess(t, done)
  \/ \E t \in ScrapeTrackers, done \in BOOLEAN : ReceiveScrapeFailed(t, done)
  \/ Tick

SpecScrape == InitScrape /\ [][NextScrape]_vars

\* ------------------------------------------------------------------ SpecAnnounce
\* Announces and their results on a list of NumAnnounce trackers.

AnnounceTrackers == 1..NumAnnounce

\* The list holds trackers 1..NumAnnounce, in groups numbered from 0 without
\* gaps; the clock stands somewhere in the second scrape period; success: whether
\* the host has set m_slot_success.
InitListed(success) ==
  /\ list = [i \in 1..NumAnnounce |-> i]
  /\ group \in {g \in [Trackers -> Groups] :
                  /\ \A t \in Trackers \ AnnounceTrackers : g[t] = 0
                  /\ g[1] = 0
                  /\ \A i \in AnnounceTrackers \ {1} : g[i] \in {g[i - 1], g[i - 1] + 1}}
  /\ worker = [t \in Trackers |-> DefaultWorker]
  /\ state = [t \in Trackers |-> DefaultState]
  /\ cachedTime \in {from_seconds(10 * 60) + a : a \in Ticks}
  /\ slots \in {[AllSlots EXCEPT !.success = b] : b \in success}
  /\ InitLog
  /\ pc = NoPeer

InitAnnounce == InitListed({TRUE})

\* Results come in for trackers that are idle, with an empty address list.
NextAnnounce ==
  \/ \E t \in AnnounceTrackers : ReceiveSuccess(t, FALSE, <<>>, 0)
  \/ \E t \in AnnounceTrackers : ReceiveFailed(t, FALSE)

SpecAnnounce == InitAnnounce /\ [][NextAnnounce]_vars

\* ------------------------------------------------------------------ SpecSuccess
\* Announces to the last tracker of the list, and every result they can have.

NextSuccess ==
  \/ SendEvent(NumAnnounce, "STARTED")
  \/ \E done \in BOOLEAN, al \in AddressLists, new_peers \in 0..MaxNewPeers :
       ReceiveSuccess(NumAnnounce, done, al, new_peers)
  \/ \E done \in BOOLEAN : ReceiveFailed(NumAnnounce, done)

InitSuccess == InitListed(BOOLEAN)

SpecSuccess == InitSuccess /\ [][NextSuccess]_vars

\* ------------------------------------------------------------------ SpecFind
\* find_next_to_request on a list of trackers in every state it tells apart.

FindTimes == {30 * k : k \in 0..MaxFindStep}

\* The tracker states find_next_to_request tells apart: a tracker it may not
\* request from; one without failures, with the time of its last success and
\* its interval; one with failures, with their number and the time of the last.
FindStates ==
  {[worker |-> [DefaultWorker EXCEPT !.usable = FALSE], state |-> DefaultState]}
  \cup {[worker |-> DefaultWorker,
         state |-> [DefaultState EXCEPT !.success_counter = IF st > 0 THEN 1 ELSE 0,
                                        !.success_time_last = st,
                                        !.normal_interval = ni]] :
        st \in FindTimes, ni \in {0, 30 * (MaxFindStep + 1)}}
  \cup {[worker |-> DefaultWorker,
         state |-> [DefaultState EXCEPT !.failed_counter = fc, !.failed_time_last = ft]] :
        fc \in 1..MaxCount, ft \in FindTimes}

InitFind ==
  /\ list = [i \in 1..NumTrackers |-> i]
  /\ group = [t \in Trackers |-> 0]
  /\ \E f \in [Trackers -> FindStates] :
       /\ worker = [t \in Trackers |-> f[t].worker]
       /\ state = [t \in Trackers |-> f[t].state]
  /\ cachedTime = 0
  /\ slots = AllSlots
  /\ InitLog
  /\ pc = NoPeer

FindNextToRequest(itr) ==
  /\ ret' = find_next_to_request(list, itr)
  /\ op' = [name |-> "find_next_to_request", t |-> 0, a |-> itr]
  /\ err' = ""
  /\ calls' = <<>>
  /\ UNCHANGED <<orderVars, trackerVars, cachedTime, hostVars, hist, pc, thread>>

NextFind == \E itr \in 1..(NumTrackers + 1) : FindNextToRequest(itr)

SpecFind == InitFind /\ [][NextFind]_vars

\* ------------------------------------------------------------------ claims

\* C1: after any sequence of insert, promote, cycle_group and
\* randomize_group_entries the list is ordered by group: for positions i < j
\* the group of the tracker at i is <= the group of the tracker at j.
C1_Grouped ==
  \A i, j \in 1..Len(list) : i < j => group[list[i]] <= group[list[j]]

\* A tracker has been inserted between two trackers of other groups.
C1_Witness ==
  /\ op.name = "insert"
  /\ Len(list) = 3
  /\ ret = 2
  /\ group[list[1]] < group[list[2]]
  /\ group[list[2]] < group[list[3]]

\* The tracker that leads group g: the first one of that group in the list.
FirstOfGroup(l, g) ==
  CHOOSE i \in 1..Len(l) : group[l[i]] = g /\ \A j \in 1..(i - 1) : group[l[j]] # g

\* C2: right after a receive_success the first tracker of that tracker's group
\* is that tracker; and across receive_success and receive_failed calls the
\* first tracker of every group that has had a success is the tracker of that
\* group whose success was the most recent.
C2_LeaderIsLastSuccess ==
  /\ (op.name = "receive_success" /\ err = "") =>
       list[FirstOfGroup(list, group[op.t])] = op.t
  /\ \A g \in Groups :
       hist.lastSucc[g] # 0 => list[FirstOfGroup(list, g)] = hist.lastSucc[g]

\* Both trackers of group 0 have had a success, the second one last, and a
\* failure has come in since.
C2_Witness ==
  /\ op.name = "receive_failed"
  /\ group[1] = 0 /\ group[2] = 0
  /\ state[1].success_counter > 0
  /\ state[2].success_counter > 0
  /\ hist.lastSucc[0] = 2
  /\ list[1] = 2

\* C3: a tracker never has more than one request in flight: send_scrape starts
\* nothing on a busy tracker, and send_event on a busy tracker starts nothing
\* when it is busy with an announce and otherwise closes the scrape in flight
\* before it starts the announce.
C3_OneInFlight ==
  /\ [](\A t \in Trackers : worker[t].inflight <= 1)
  /\ [][/\ (op'.name = "send_scrape" /\ is_busy(worker[op'.t])) =>
             (calls' = <<>> /\ worker'[op'.t] = worker[op'.t])
        /\ (op'.name = "send_event" /\ is_busy(worker[op'.t])) =>
             \/ calls' = <<>> /\ worker'[op'.t] = worker[op'.t]
             \/ /\ state[op'.t].latest_event = "SCRAPE"
                /\ calls' = <<"close", "send_event">>
        /\ (/\ op'.name = "send_event"
            /\ is_busy(worker[op'.t])
            /\ state[op'.t].latest_event # "SCRAPE") => calls' = <<>>
       ]_vars

\* An announce has replaced a scrape that was in flight.
C3_Witness ==
  /\ op.name = "send_event"
  /\ calls = <<"close", "send_event">>
  /\ worker[op.t].inflight = 1

\* C4: send_event(tracker, event) sends and closes nothing when the tracker is
\* not usable or the event is SCRAPE; on a tracker busy with something other
\* than a scrape it sends nothing and leaves the request in flight; on a
\* tracker busy with a scrape it closes the scrape and then sends the event;
\* on an idle usable tracker it sends the event.
C4_SendEvent ==
  [][op'.name = "send_event" =>
       LET t == op'.t
           e == op'.a
           w == worker[t]
           s == state[t]
           sent == /\ worker'[t] = [w EXCEPT !.inflight = 1]
                   /\ state'[t] = [s EXCEPT !.latest_event = e]
           nothing == calls' = <<>> /\ worker'[t] = w /\ state'[t] = s
       IN  /\ (~w.usable \/ e = "SCRAPE") => nothing
           /\ (w.usable /\ e # "SCRAPE" /\ w.inflight > 0 /\ s.latest_event # "SCRAPE") =>
                nothing
           /\ (w.usable /\ e # "SCRAPE" /\ w.inflight > 0 /\ s.latest_event = "SCRAPE") =>
                (calls' = <<"close", "send_event">> /\ sent)
           /\ (w.usable /\ e # "SCRAPE" /\ w.inflight = 0) =>
                (calls' = <<"send_event">> /\ sent)
    ]_vars

\* send_event has been refused on a tracker busy with an announce.
C4_Witness ==
  /\ op.name = "send_event"
  /\ op.a = "STARTED"
  /\ calls = <<>>
  /\ worker[op.t].usable
  /\ worker[op.t].inflight = 1
  /\ state[op.t].latest_event = "NONE"

\* The positions at or after itr whose tracker satisfies can_request_state.
Candidates(itr) ==
  {i \in itr..Len(list) : can_request_state(worker[list[i]], state[list[i]])}

\* When the tracker at position i is due: after its backoff if it has failures,
\* else after its interval.
Due(i) ==
  IF state[list[i]].failed_counter # 0
  THEN failed_time_next(state[list[i]])
  ELSE success_time_next(state[list[i]])

SetMin(S) == CHOOSE x \in S : \A y \in S : x <= y

\* C5 as stated: find_next_to_request(itr) returns, among all trackers at or
\* after itr that satisfy can_request_state, the one that is due earliest.
C5_Original ==
  op.name = "find_next_to_request" =>
    LET C == Candidates(op.a)
    IN  IF C = {} THEN ret = End(list)
        ELSE ret \in C /\ \A j \in C : Due(ret) <= Due(j)

\* C5 as amended: find_next_to_request(itr) returns end when no tracker at or
\* after itr satisfies can_request_state, and the first such tracker when it
\* has no failures.  Otherwise it looks only at the candidates up to and
\* including the first one without failures: it returns the one with failures
\* whose failed_time_next is earliest (the first of them on a tie), unless
\* the success_time_next of that first tracker without failures is earlier
\* still, and then it returns that one.
C5_FindNext ==
  op.name = "find_next_to_request" =>
    LET C == Candidates(op.a)
        ok == {i \in C : state[list[i]].failed_counter = 0}
        lim == IF ok = {} THEN End(list) ELSE SetMin(ok)
        failed == {i \in C : i < lim}
        best == SetMin({i \in failed :
                          \A j \in failed : failed_time_next(state[list[i]])
                                              <= failed_time_next(state[list[j]])})
    IN  IF C = {} THEN ret = End(list)
        ELSE IF state[list[SetMin(C)]].failed_counter = 0 THEN ret = SetMin(C)
        ELSE IF /\ ok # {}
                /\ success_time_next(state[list[lim]]) < failed_time_next(state[list[best]])
        THEN ret = lim
        ELSE ret = best

\* The choice fell on a tracker with failures, and a candidate behind the first
\* one without failures, due earlier than the one chosen, was not looked at.
C5_Witness ==
  /\ op.name = "find_next_to_request"
  /\ ret \in Candidates(op.a)
  /\ state[list[ret]].failed_counter # 0
  /\ \E n \in Candidates(op.a) :
       /\ n > ret
       /\ state[list[n]].failed_counter = 0
       /\ \E m \in Candidates(op.a) : m > n /\ Due(m) < Due(ret)

\* q is al sorted with its duplicates removed.
SortedDistinct(q, al) ==
  /\ Range(q) = Range(al)
  /\ \A i, j \in 1..Len(q) : i < j => q[i] < q[j]

\* C6: receive_success(tracker, list) on a listed tracker that is not busy sets
\* failed_counter to 0, adds one to success_counter, sets success_time_last to
\* the current time and latest_sum_peers to the number of distinct addresses;
\* the host's success slot is called after the promotion and these updates,
\* with the sorted list without duplicates, and latest_new_peers is then what
\* the slot returned.
C6_ReceiveSuccess ==
  [][(op'.name = "receive_success" /\ err' = "") =>
       LET t == op'.t
           al == op'.a.al
           n == Cardinality(Range(al))
           updated(s) == /\ s.failed_counter = 0
                         /\ s.success_counter = state[t].success_counter + 1
                         /\ s.success_time_last = seconds(cachedTime)
                         /\ s.latest_sum_peers = n
       IN  /\ updated(state'[t])
           /\ list'[FirstOfGroup(list', group[t])] = t
           /\ IF slots.success
              THEN /\ seen'.called
                   /\ seen'.tracker = t
                   /\ SortedDistinct(seen'.addrs, al)
                   /\ seen'.list[FirstOfGroup(seen'.list, group[t])] = t
                   /\ updated(seen'.state)
                   /\ seen'.state.latest_new_peers = state[t].latest_new_peers
                   /\ state'[t].latest_new_peers = op'.a.new_peers
              ELSE /\ ~seen'.called
                   /\ state'[t].latest_new_peers = state[t].latest_new_peers
    ]_vars

\* A tracker that had failed, behind another one of its group, has reported a
\* second success with a list that names one address twice, and the slot ran.
C6_Witness ==
  /\ op.name = "receive_success"
  /\ err = ""
  /\ seen.called
  /\ op.a.al = <<MaxAddr, MaxAddr>>
  /\ op.a.new_peers = 1
  /\ state[op.t].failed_time_last > 0
  /\ state[op.t].success_counter = 2
  /\ group[1] = group[2]
  /\ list[1] = op.t

C8_Original ==
  [][(/\ op'.name = "send_scrape"
      /\ calls' = <<"send_scrape">>
      /\ hist.scrapeSent[op'.t] >= 0) =>
       cachedTime - hist.scrapeSent[op'.t] >= from_seconds(10 * 60)
    ]_vars

\* C8 as amended: a scrape request is never sent to a tracker less than 600 s
\* after the whole second in which that tracker's last scrape success was
\* received; a scrape failure records no time and holds nothing back.
C8_ScrapeAfterSuccess ==
  (op.name = "send_scrape" /\ calls = <<"send_scrape">> /\ hist.scrapeOk[op.t] >= 0) =>
    cachedTime >= from_seconds(seconds(hist.scrapeOk[op.t]) + 10 * 60)

\* A second scrape request has gone out to a tracker whose first scrape
\* succeeded.
C8_Witness ==
  /\ op.name = "send_scrape"
  /\ calls = <<"send_scrape">>
  /\ hist.scrapeOk[op.t] >= 0
  /\ state[op.t].scrape_counter > 0

\* C9: promote(itr) puts the tracker at itr at the first position of its
\* group and returns that position; the tracker that was first in the group
\* gets the promoted tracker's old position; every other position keeps its
\* tracker.
C9_Promote ==
  \A itr \in 1..Len(list) :
    LET r == promote(list, itr)
        first == FirstOfGroup(list, group[list[itr]])
    IN  /\ ~r.threw
        /\ r.ret = first
        /\ Len(r.list) = Len(list)
        /\ r.list[first] = list[itr]
        /\ r.list[itr] = list[first]
        /\ \A k \in 1..Len(list) : k \notin {first, itr} => r.list[k] = list[k]

\* promote has moved a tracker to the head of a group that is not the first.
C9_Witness ==
  /\ op.name = "promote"
  /\ err = ""
  /\ ret > 1
  /\ op.a > ret
  /\ list[ret] = op.t

\* C10: promote is idempotent: promoting the position promote(itr) returned
\* returns that position again and leaves the list as the first promote left it.
C10_PromoteIdempotent ==
  \A itr \in 1..Len(list) :
    LET r1 == promote(list, itr)
        r2 == promote(r1.list, r1.ret)
    IN  r2.ret = r1.ret /\ r2.list = r1.list

\* promote has moved a tracker, and promoting the position it returned moves
\* nothing.
C10_Witness ==
  /\ op.name = "promote"
  /\ op.a # ret
  /\ list[ret] = op.t
  /\ promote(list, ret).list = list

\* The trackers of group g in list l.
GroupSize(l, g) == Cardinality({i \in 1..Len(l) : group[l[i]] = g})

\* cycle_group(g) called n times in a row on list l.
RECURSIVE CycleTimes(_, _, _)
CycleTimes(l, g, n) == IF n = 0 THEN l ELSE CycleTimes(cycle_group(l, g), g, n - 1)

\* C11: for every group g with n trackers, calling cycle_group(g) n times in a
\* row restores the original order of the whole list.
C11_CycleGroupIdentity ==
  \A g \in Groups : CycleTimes(list, g, GroupSize(list, g)) = list

\* cycle_group has just rotated a group of three or more trackers and has
\* changed the list; one more call changes it again.
C11_Witness ==
  /\ op.name = "cycle_group"
  /\ GroupSize(list, op.a) >= 3
  /\ cycle_group(list, op.a) # list
  /\ cycle_group(cycle_group(list, op.a), op.a) # list

\* ==================================================================
\* PeerConnectionBase (src/src/torrent/tracker_list.cc, 459-932): one peer
\* connection, pc, with what it keeps of its collaborators.

\* ------------------------------------------------------------------ pieces

\* The length of every chunk of the torrent.
\* Content::chunk_size(): a chunk holds two blocks of the largest length.
ChunkSize == 2 * MaxBlockLength

\* The blocks a remote can name: index, offset within the piece, length.  An
\* index of NumPieces is past the last piece, an offset of ChunkSize past its
\* end, a length of MaxBlockLength + 1 too long.
Pieces ==
  [index : 0..NumPieces, offset : {0}, length : {MaxBlockLength, MaxBlockLength + 1}]
    \cup {[index |-> 0, offset |-> ChunkSize, length |-> MaxBlockLength]}

NoPiece == [index |-> 0, offset |-> 0, length |-> 0]

\* Content::is_valid_piece(): the piece exists and the block lies within it.
is_valid_piece(piece) ==
  /\ piece.index < NumPieces
  /\ piece.length > 0
  /\ piece.offset + piece.length <= ChunkSize

\* Content::has_chunk(): we have the piece, so we can serve it.
has_chunk(p, index) == index \in p.have

\* ------------------------------------------------------------------ BitFieldExt

\* BitFieldExt::size_bytes() of a bitfield of n bits.
size_bytes(n) == (n + 7) \div 8

\* BitFieldExt(n): n bits in size_bytes(n) bytes, all zero.
BitFieldExt(n) == [i \in 1..size_bytes(n) |-> 0]

RECURSIVE Pow2(_)
Pow2(k) == IF k = 0 THEN 1 ELSE 2 * Pow2(k - 1)

\* Bit k of a byte, the most significant bit being bit 0.
ByteBit(b, k) == (b \div Pow2(7 - k)) % 2

\* BitFieldExt::get(i)
BitFieldGet(bf, i) == ByteBit(bf[(i \div 8) + 1], i % 8) = 1

\* The bytes of the bitfield whose set bits are the indices in S.
RECURSIVE BitSum(_, _)
BitSum(S, byte) ==
  IF S = {} THEN 0
  ELSE LET i == CHOOSE x \in S : TRUE
       IN  (IF i \div 8 = byte THEN Pow2(7 - (i % 8)) ELSE 0) + BitSum(S \ {i}, byte)

BitFieldOf(n, S) == [b \in 1..size_bytes(n) |-> BitSum(S, b - 1)]

\* ------------------------------------------------------------------ the connection

\* A ProtocolRead or ProtocolWrite after construction.
DefaultProtocol == [choked |-> TRUE, interested |-> FALSE, state |-> "INTERNAL_ERROR", position |-> 0]

\* A ChunkHandle that is not valid.
NoHandle == [valid |-> FALSE, index |-> 0]

\* No ThrottleNode (NULL).  A node is listed when it is in its throttle's list
\* and active when the throttle has not moved it to the idle part; quota is
\* what is left of the slice the throttle granted it at the last refill, used
\* the bytes debited since then and last the bytes of the last node_used().
NoNode ==
  [node |-> FALSE, listed |-> FALSE, active |-> FALSE, quota |-> 0, used |-> 0, last |-> 0]

\* PeerConnectionBase::PeerConnectionBase, and the collaborators before the
\* connection is known to them.
DefaultPeer ==
  [fd |-> FALSE,
   m_download |-> FALSE,
   m_down |-> DefaultProtocol,
   m_up |-> DefaultProtocol,
   m_sendChoked |-> FALSE,
   m_sendInterested |-> FALSE,
   m_snubbed |-> FALSE,
   m_sendList |-> <<>>,
   m_upPiece |-> NoPiece,
   m_upChunk |-> NoHandle,
   m_downPiece |-> NoPiece,
   m_downChunk |-> NoHandle,
   m_upThrottle |-> NoNode,
   m_downThrottle |-> NoNode,
   m_requestList |-> <<>>,
   m_downStall |-> 0,
   m_downRate |-> 0,     \* m_downThrottle->rate()->rate()
   endgame |-> FALSE,    \* m_download->get_endgame()
   down_rate |-> 0,      \* m_download->down_rate()->rate(), bytes a second over all peers
   bitfield |-> <<>>,    \* m_peerChunks.bitfield(), its bytes
   choke |-> [connected |-> FALSE, interested |-> FALSE],  \* the choke manager's view
   chunkList |-> [down |-> [i \in 0..(NumPieces - 1) |-> 0],   \* the pins taken with get(index, true)
                  up |-> [i \in 0..(NumPieces - 1) |-> 0]],    \* the pins taken with get(index, false)
   have |-> {},          \* the pieces Content has: has_chunk()
   written |-> {},       \* the blocks handed to m_up->write_piece()
   poll |-> [read |-> FALSE, write |-> FALSE, error |-> FALSE]]

\* write_insert_poll_safe(): asks the poller for write events unless a write
\* is under way.
write_insert_poll_safe(p) ==
  IF p.m_up.state = "IDLE" THEN [p EXCEPT !.poll.write = TRUE] ELSE p

\* PeerConnectionBase::read_request_piece
\* A plausible slip: the send list is not searched for the block.
read_request_piece_no_find(p, piece) ==
  IF p.m_up.choked \/ piece.length > MaxBlockLength
  THEN p
  ELSE write_insert_poll_safe([p EXCEPT !.m_sendList = Append(@, piece)])

read_request_piece(p, piece) ==
  IF p.m_up.choked \/ piece \in Range(p.m_sendList) \/ piece.length > MaxBlockLength
  THEN p
  ELSE write_insert_poll_safe([p EXCEPT !.m_sendList = Append(@, piece)])

\* std::list::erase(itr): the element at position i is taken out.
EraseAt(l, i) == SubSeq(l, 1, i - 1) \o SubSeq(l, i + 1, Len(l))

\* PeerConnectionBase::read_cancel_piece
read_cancel_piece(p, piece) ==
  LET itr == find(p.m_sendList, piece)
  IN  IF itr # End(p.m_sendList)
      THEN [p EXCEPT !.m_sendList = EraseAt(@, itr)]
      ELSE p

\* A plausible slip: the block is written before it is validated.
write_prepare_piece_unchecked(p) ==
  LET q == [p EXCEPT !.m_upPiece = Head(p.m_sendList), !.m_sendList = Tail(@)]
  IN  [pc |-> [q EXCEPT !.written = @ \cup {q.m_upPiece}], err |-> ""]

\* PeerConnectionBase::write_prepare_piece, called with a send list that is not
\* empty: the connection afterwards and the exception thrown.
write_prepare_piece(p) ==
  LET q == [p EXCEPT !.m_upPiece = Head(p.m_sendList), !.m_sendList = Tail(@)]
  IN  IF ~is_valid_piece(q.m_upPiece) \/ ~has_chunk(q, q.m_upPiece.index)
      THEN [pc |-> q, err |-> "communication_error"]
      ELSE [pc |-> [q EXCEPT !.written = @ \cup {q.m_upPiece}], err |-> ""]

\* PeerConnectionBase::receive_choke: the connection afterwards and the
\* exception thrown.
receive_choke(p, v) ==
  IF v = p.m_up.choked
  THEN [pc |-> p, err |-> "internal_error"]
  ELSE [pc |-> [write_insert_poll_safe(p) EXCEPT !.m_sendChoked = TRUE, !.m_up.choked = v],
        err |-> ""]

\* ------------------------------------------------------------------ SpecSend
\* The requests of the remote peer and the blocks served to it.

\* The tracker list plays no part.
\* The record of the last call on the connection: its name, its integer
\* argument and its piece argument.
PeerOp(name, n, piece) == [name |-> name, t |-> n, a |-> piece]

NoPeerOp == PeerOp("none", 0, NoPiece)

trackerAll == <<list, group, worker, state, cachedTime, slots, seen, hist, thread>>

NoTrackers ==
  /\ list = <<>>
  /\ group = [t \in Trackers |-> 0]
  /\ worker = [t \in Trackers |-> DefaultWorker]
  /\ state = [t \in Trackers |-> DefaultState]
  /\ cachedTime = 0
  /\ slots = AllSlots
  /\ op = NoPeerOp
  /\ ret = 0
  /\ err = ""
  /\ calls = <<>>
  /\ seen = NoSeen
  /\ hist = NoHist
  /\ thread = NoThread

\* PeerConnectionBase::initialize with a valid download, peer and socket: the
\* connection is idle and watched by the poller for every event.
initialize(p) ==
  [p EXCEPT !.fd = TRUE,
            !.m_download = TRUE,
            !.poll = [read |-> TRUE, write |-> TRUE, error |-> TRUE],
            !.bitfield = BitFieldExt(NumPieces),
            !.m_upThrottle = [NoNode EXCEPT !.node = TRUE],
            !.m_downThrottle = [NoNode EXCEPT !.node = TRUE],
            !.m_down.state = "IDLE",
            !.m_up.state = "IDLE"]

\* An initialized connection; Content has any of the pieces, and we may have
\* unchoked the peer already.
InitSend ==
  /\ NoTrackers
  /\ pc \in {[initialize([DefaultPeer EXCEPT !.have = h]) EXCEPT !.m_up.choked = c] :
              h \in SUBSET (0..(NumPieces - 1)), c \in BOOLEAN}

ReadRequestPiece(piece) ==
  /\ pc' = read_request_piece(pc, piece)
  /\ op' = PeerOp("read_request_piece", 0, piece)
  /\ ret' = 0
  /\ err' = ""
  /\ calls' = <<>>
  /\ UNCHANGED trackerAll

ReadCancelPiece(piece) ==
  /\ pc' = read_cancel_piece(pc, piece)
  /\ op' = PeerOp("read_cancel_piece", 0, piece)
  /\ ret' = 0
  /\ err' = ""
  /\ calls' = <<>>
  /\ UNCHANGED trackerAll

\* write_prepare_piece is called when the send list is not empty.
WritePreparePiece ==
  /\ pc.m_sendList # <<>>
  /\ LET r == write_prepare_piece(pc)
     IN  /\ pc' = r.pc
         /\ err' = r.err
  /\ op' = PeerOp("write_prepare_piece", 0, Head(pc.m_sendList))
  /\ ret' = 0
  /\ calls' = <<>>
  /\ UNCHANGED trackerAll

ReceiveChoke(v) ==
  /\ LET r == receive_choke(pc, v)
     IN  /\ pc' = r.pc
         /\ err' = r.err
  /\ op' = PeerOp("receive_choke", IF v THEN 1 ELSE 0, NoPiece)
  /\ ret' = 0
  /\ calls' = <<>>
  /\ UNCHANGED trackerAll

NextSend ==
  \/ \E piece \in Pieces : ReadRequestPiece(piece)
  \/ \E piece \in Pieces : ReadCancelPiece(piece)
  \/ WritePreparePiece
  \/ \E v \in BOOLEAN : ReceiveChoke(v)

SpecSend == InitSend /\ [][NextSend]_vars

\* The bound that spec section 3 puts on the send list; the source names no
\* such bound and the model takes a value for it.
MAX_SEND_QUEUE == 2

\* C12: after any sequence of read_request_piece, read_cancel_piece and
\* write_prepare_piece the length of send_list never exceeds MAX_SEND_QUEUE.
C12_SendListBounded == Len(pc.m_sendList) <= MAX_SEND_QUEUE

\* The remote has filled the send list with requests that differ.
C12_Witness ==
  /\ op.name = "read_request_piece"
  /\ Len(pc.m_sendList) > MAX_SEND_QUEUE

\* What is wrong with a request: too long, not a block of the torrent, or of
\* a piece we do not have.
TooLong(piece) == piece.length > MaxBlockLength

Unservable(p, piece) == ~is_valid_piece(piece) \/ ~has_chunk(p, piece.index)

\* C14 as stated: a request that is too long, or that names an invalid block
\* or a piece we do not have, is rejected as a communication error, and its
\* block is never written to the peer.
C14_Original ==
  /\ [](\A piece \in pc.written : ~TooLong(piece) /\ ~Unservable(pc, piece))
  /\ [][(op'.name = "read_request_piece" /\ (TooLong(op'.a) \/ Unservable(pc, op'.a))) =>
          err' = "communication_error"]_vars

\* C14 as amended: read_request_piece throws nothing; a request that is too
\* long is dropped there, with no error and no change to the connection; a
\* request of acceptable length that names an invalid block or a piece we do
\* not have is queued like any other when the peer is not choked and the
\* request is not in the list yet, and is rejected as a communication error
\* when write_prepare_piece takes it from the head of the list.  No such block
\* is ever written to the peer.
C14_RequestRejected ==
  /\ [](\A piece \in pc.written : ~TooLong(piece) /\ ~Unservable(pc, piece))
  /\ [][/\ (op'.name = "read_request_piece") =>
            (/\ err' = ""
             /\ (TooLong(op'.a) => pc' = pc)
             /\ (/\ ~TooLong(op'.a)
                 /\ ~pc.m_up.choked
                 /\ op'.a \notin Range(pc.m_sendList)) =>
                  pc'.m_sendList = Append(pc.m_sendList, op'.a))
        /\ (op'.name = "write_prepare_piece") =>
            (IF Unservable(pc, op'.a)
             THEN err' = "communication_error" /\ pc'.written = pc.written
             ELSE err' = "" /\ pc'.written = pc.written \cup {op'.a})
       ]_vars

\* A request for a piece we do not have was queued and has been rejected when
\* its turn came, after a request that was too long had been dropped.
C14_Witness ==
  /\ op.name = "write_prepare_piece"
  /\ err = "communication_error"
  /\ is_valid_piece(op.a)
  /\ ~has_chunk(pc, op.a.index)
  /\ pc.written = {}

\* ------------------------------------------------------------------ SpecRequest
\* try_request_pieces, with the arrival of requested blocks and the changes of
\* the measured download rate.

\* RequestList::calculate_pipe_size(): clamp(base + rate / granularity,
\* min_pipe, max_pipe).
PipeBase == 1
PipeGranularity == 1
MinPipe == 1
MaxPipe == 2

Max(a, b) == IF a > b THEN a ELSE b

calculate_pipe_size(rate) == Max(MinPipe, Min(MaxPipe, PipeBase + rate \div PipeGranularity))

\* The blocks the delegator hands out: an index of NumPieces is past the last
\* piece.
Blocks == [index : 0..NumPieces, offset : {0}, length : {MaxBlockLength}]

\* The delegator has at most this many blocks to hand out in one call.
MaxDelegate == MaxPipe + 1

Delegations == UNION {[1..n -> Blocks] : n \in 0..MaxDelegate}

\* The loop of try_request_pieces: d is what m_requestList.delegate() returns
\* call after call (NULL when d is used up) and room is the number of requests
\* the write buffer can take (m_up->can_write_request()).  A delegated block
\* is in the request list from the moment delegate() returns it.
RECURSIVE try_request_loop(_, _, _, _, _)
try_request_loop(p, pipeSize, d, room, success) ==
  IF Len(p.m_requestList) < pipeSize /\ room > 0
  THEN IF d = <<>>
       THEN [pc |-> p, ret |-> success, err |-> ""]
       ELSE IF ~is_valid_piece(Head(d)) \/ ~BitFieldGet(p.bitfield, Head(d).index)
            THEN [pc |-> [p EXCEPT !.m_requestList = Append(@, Head(d))],
                  ret |-> 0, err |-> "internal_error"]
            ELSE try_request_loop([p EXCEPT !.m_requestList = Append(@, Head(d))],
                                  pipeSize, Tail(d), room - 1, 1)
  ELSE [pc |-> p, ret |-> success, err |-> ""]

\* try_request_pieces filling the list with whatever the delegator gives.
try_request_pieces_no_pipe(p, d, room) ==
  try_request_loop(p, Len(p.m_requestList) + Len(d) + 1, d, room, 0)

try_request_pieces(p, d, room) ==
  LET p1 == IF p.m_requestList = <<>> THEN [p EXCEPT !.m_downStall = 0] ELSE p
  IN  try_request_loop(p1, calculate_pipe_size(p.m_downRate), d, room, 0)

\* An initialized connection whose peer has sent any bitfield and downloads
\* at any rate.
InitPipe ==
  /\ NoTrackers
  /\ pc \in {[initialize(DefaultPeer) EXCEPT !.bitfield = BitFieldOf(NumPieces, S),
                                             !.m_downRate = r] :
              S \in SUBSET (0..(NumPieces - 1)), r \in 0..MaxRate}

TryRequestPieces(d, room) ==
  /\ LET r == try_request_pieces(pc, d, room)
     IN  /\ pc' = r.pc
         /\ ret' = r.ret
         /\ err' = r.err
  /\ op' = PeerOp("try_request_pieces", Min(Len(d), room), NoPiece)
  /\ calls' = <<>>
  /\ UNCHANGED trackerAll

\* The block requested first arrives and leaves the request list.
ReceiveBlock ==
  /\ pc.m_requestList # <<>>
  /\ pc' = [pc EXCEPT !.m_requestList = Tail(@)]
  /\ op' = PeerOp("finished", 0, Head(pc.m_requestList))
  /\ ret' = 0
  /\ err' = ""
  /\ calls' = <<>>
  /\ UNCHANGED trackerAll

\* The rate measured on the download throttle node changes.
RateChange(r) ==
  /\ r # pc.m_downRate
  /\ pc' = [pc EXCEPT !.m_downRate = r]
  /\ op' = PeerOp("rate", r, NoPiece)
  /\ ret' = 0
  /\ err' = ""
  /\ calls' = <<>>
  /\ UNCHANGED trackerAll

NextPipe ==
  \/ \E d \in Delegations, room \in 0..MaxDelegate : TryRequestPieces(d, room)
  \/ ReceiveBlock
  \/ \E r \in 0..MaxRate : RateChange(r)

SpecPipe == InitPipe /\ [][NextPipe]_vars

\* C13 as stated: the request list is never longer than the pipe size of the
\* current download rate.
C13_Original == Len(pc.m_requestList) <= calculate_pipe_size(pc.m_downRate)

\* C13 as amended: try_request_pieces only appends to the request list, and
\* never lengthens it beyond the pipe size of the download rate at the time
\* of the call; nothing else lengthens the list, so it is never longer than
\* the largest pipe size.  After the rate has fallen the list may be longer
\* than the pipe size of the current rate until requested blocks arrive.
C13_RequestListBounded ==
  /\ [](Len(pc.m_requestList) <= MaxPipe)
  /\ [][IF op'.name = "try_request_pieces"
        THEN /\ Len(pc'.m_requestList) <=
                  Max(Len(pc.m_requestList), calculate_pipe_size(pc.m_downRate))
             /\ Len(pc'.m_requestList) >= Len(pc.m_requestList)
             /\ SubSeq(pc'.m_requestList, 1, Len(pc.m_requestList)) = pc.m_requestList
        ELSE Len(pc'.m_requestList) <= Len(pc.m_requestList)]_vars

\* A call that the delegator and the write buffer would have let go further
\* stops at the pipe size.
C13_Witness ==
  /\ op.name = "try_request_pieces"
  /\ ret = 1
  /\ err = ""
  /\ Len(pc.m_requestList) = calculate_pipe_size(pc.m_downRate)
  /\ op.t > Len(pc.m_requestList)

\* ------------------------------------------------------------------ SpecSnub
\* set_snubbed and the remote's interest, with the choke manager's view of the
\* connection, while the choke manager chokes and unchokes the peer and the
\* peer's requests are queued and served.

\* is_upload_wanted(): the remote is interested and we have not snubbed it.
is_upload_wanted(p) == p.m_down.interested /\ ~p.m_snubbed

\* BitFieldExt::all_set()
all_set(bf) == \A i \in 0..(NumPieces - 1) : BitFieldGet(bf, i)

\* ChokeManager::set_interested / set_not_interested
choke_set_interested(p, v) == [p EXCEPT !.choke.interested = v]

\* set_snubbed telling the choke manager of every change of the flag.
set_snubbed_always(p, v) ==
  IF v = p.m_snubbed
  THEN [pc |-> p, calls |-> <<>>]
  ELSE [pc |-> choke_set_interested([p EXCEPT !.m_snubbed = v], ~v),
        calls |-> <<IF v THEN "set_not_interested" ELSE "set_interested">>]

set_snubbed(p, v) ==
  IF v = p.m_snubbed
  THEN [pc |-> p, calls |-> <<>>]
  ELSE LET wasUploadWanted == is_upload_wanted(p)
           p1 == [p EXCEPT !.m_snubbed = v]
       IN  IF v
           THEN IF wasUploadWanted
                THEN [pc |-> choke_set_interested(p1, FALSE), calls |-> <<"set_not_interested">>]
                ELSE [pc |-> p1, calls |-> <<>>]
           ELSE IF is_upload_wanted(p1)
                THEN [pc |-> choke_set_interested(p1, TRUE), calls |-> <<"set_interested">>]
                ELSE [pc |-> p1, calls |-> <<>>]

set_remote_interested(p) ==
  IF p.m_down.interested \/ all_set(p.bitfield)
  THEN [pc |-> p, calls |-> <<>>]
  ELSE LET p1 == [p EXCEPT !.m_down.interested = TRUE]
       IN  IF is_upload_wanted(p1)
           THEN [pc |-> choke_set_interested(p1, TRUE), calls |-> <<"set_interested">>]
           ELSE [pc |-> p1, calls |-> <<>>]

\* A plausible slip: the choke manager is told whether or not upload was wanted.
set_remote_not_interested_always(p) ==
  IF ~p.m_down.interested
  THEN [pc |-> p, calls |-> <<>>]
  ELSE [pc |-> choke_set_interested([p EXCEPT !.m_down.interested = FALSE], FALSE),
        calls |-> <<"set_not_interested">>]

set_remote_not_interested(p) ==
  IF ~p.m_down.interested
  THEN [pc |-> p, calls |-> <<>>]
  ELSE LET wasUploadWanted == is_upload_wanted(p)
           p1 == [p EXCEPT !.m_down.interested = FALSE]
       IN  IF wasUploadWanted
           THEN [pc |-> choke_set_interested(p1, FALSE), calls |-> <<"set_not_interested">>]
           ELSE [pc |-> p1, calls |-> <<>>]

\* An initialized connection the choke manager knows, whose peer has sent any
\* bitfield.
InitSnub ==
  /\ NoTrackers
  /\ pc \in {[initialize(DefaultPeer) EXCEPT !.bitfield = BitFieldOf(NumPieces, S),
                                             !.choke.connected = TRUE] :
              S \in SUBSET (0..(NumPieces - 1))}

SetSnubbed(v) ==
  /\ LET r == set_snubbed(pc, v)
     IN  /\ pc' = r.pc
         /\ calls' = r.calls
  /\ op' = PeerOp("set_snubbed", IF v THEN 1 ELSE 0, NoPiece)
  /\ ret' = 0
  /\ err' = ""
  /\ UNCHANGED trackerAll

SetRemoteInterested ==
  /\ LET r == set_remote_interested(pc)
     IN  /\ pc' = r.pc
         /\ calls' = r.calls
  /\ op' = PeerOp("set_remote_interested", 0, NoPiece)
  /\ ret' = 0
  /\ err' = ""
  /\ UNCHANGED trackerAll

SetRemoteNotInterested ==
  /\ LET r == set_remote_not_interested(pc)
     IN  /\ pc' = r.pc
         /\ calls' = r.calls
  /\ op' = PeerOp("set_remote_not_interested", 0, NoPiece)
  /\ ret' = 0
  /\ err' = ""
  /\ UNCHANGED trackerAll

NextSnub ==
  \/ \E v \in BOOLEAN : SetSnubbed(v)
  \/ SetRemoteInterested
  \/ SetRemoteNotInterested
  \/ \E v \in BOOLEAN : ReceiveChoke(v)
  \/ \E piece \in Pieces : ReadRequestPiece(piece)
  \/ WritePreparePiece

SpecSnub == InitSnub /\ [][NextSnub]_vars

\* C15 as stated: a set_snubbed call that changes the flag notifies the choke
\* manager exactly once, whatever the remote's interest; a call with the
\* current value notifies it zero times.
C15_Original ==
  [][op'.name = "set_snubbed" =>
       calls' = IF (op'.t = 1) = pc.m_snubbed THEN <<>>
                ELSE IF op'.t = 1 THEN <<"set_not_interested">> ELSE <<"set_interested">>]_vars

\* C15 as amended: a set_snubbed call that changes the flag notifies the choke
\* manager exactly once when the remote is interested (set_not_interested when
\* snubbing, set_interested when un-snubbing) and zero times when the remote is
\* not interested; a call with the current value notifies it zero times.  The
\* choke manager holds the connection as interested exactly when upload is
\* wanted.
C15_SnubNotifies ==
  /\ [](pc.choke.interested = is_upload_wanted(pc))
  /\ [][op'.name = "set_snubbed" =>
          /\ pc'.m_snubbed = (op'.t = 1)
          /\ calls' = IF (op'.t = 1) = pc.m_snubbed \/ ~pc.m_down.interested THEN <<>>
                      ELSE IF op'.t = 1 THEN <<"set_not_interested">>
                      ELSE <<"set_interested">>]_vars

\* The flag changes while the remote is not interested, and the choke manager
\* is not told.
C15_Witness ==
  /\ op.name = "set_snubbed"
  /\ op.t = 1
  /\ pc.m_snubbed
  /\ ~pc.m_down.interested
  /\ calls = <<>>
  /\ ~pc.choke.interested

\* ------------------------------------------------------------------ SpecBits
\* The bitfield message of the remote.

\* The bytes the remote may send: those of the well formed bitfields, and the
\* byte with every bit set.
WireBytes == {BitSum(S, 0) : S \in SUBSET (0..Min(NumPieces - 1, 7))} \cup {255}

\* What the read buffer or the stream holds: up to one byte more than a
\* bitfield.
WireData == UNION {[1..n -> WireBytes] : n \in 0..(size_bytes(NumPieces) + 1)}

\* The first n bytes of bf replaced by those of data, from position pos on.
CopyBytes(bf, pos, data, n) ==
  [i \in 1..Len(bf) |-> IF i > pos /\ i <= pos + n THEN data[i - pos] ELSE bf[i]]

\* PeerConnectionBase::read_bitfield_from_buffer; buf is what remains in the
\* read buffer.
read_bitfield_from_buffer(p, msgLength, buf) ==
  IF msgLength # Len(p.bitfield)
  THEN [pc |-> p, ret |-> 0, err |-> "network_error"]
  ELSE LET copyLength == Min(Len(buf), msgLength)
       IN  [pc |-> [p EXCEPT !.bitfield = CopyBytes(@, 0, buf, copyLength),
                             !.m_down.position = copyLength],
            ret |-> IF copyLength = msgLength THEN 1 ELSE 0,
            err |-> ""]

\* PeerConnectionBase::read_bitfield_body; data is what the stream yields, at
\* most the bytes still missing.
read_bitfield_body(p, data) ==
  LET n == Min(Len(data), Len(p.bitfield) - p.m_down.position)
      q == [p EXCEPT !.bitfield = CopyBytes(@, p.m_down.position, data, n),
                     !.m_down.position = @ + n]
  IN  [pc |-> q, ret |-> IF q.m_down.position = Len(q.bitfield) THEN 1 ELSE 0, err |-> ""]

ReadBitfieldFromBuffer(msgLength, buf) ==
  /\ pc.fd
  /\ LET r == read_bitfield_from_buffer(pc, msgLength, buf)
     IN  /\ pc' = r.pc
         /\ ret' = r.ret
         /\ err' = r.err
  /\ op' = PeerOp("read_bitfield_from_buffer", msgLength, NoPiece)
  /\ calls' = <<>>
  /\ UNCHANGED trackerAll

\* read_bitfield_body runs while bytes of the bitfield message are missing.
ReadBitfieldBody(data) ==
  /\ pc.fd
  /\ op.name \in {"read_bitfield_from_buffer", "read_bitfield_body"}
  /\ err = ""
  /\ ret = 0
  /\ LET r == read_bitfield_body(pc, data)
     IN  /\ pc' = r.pc
         /\ ret' = r.ret
         /\ err' = r.err
  /\ op' = PeerOp("read_bitfield_body", Len(data), NoPiece)
  /\ calls' = <<>>
  /\ UNCHANGED trackerAll

InitBits ==
  /\ NoTrackers
  /\ pc = [initialize(DefaultPeer) EXCEPT !.choke.connected = TRUE]

NextBits ==
  \/ \E msgLength \in 0..(size_bytes(NumPieces) + 1), buf \in WireData :
       ReadBitfieldFromBuffer(msgLength, buf)
  \/ \E data \in WireData : ReadBitfieldBody(data)
  \/ SetRemoteInterested
  \/ SetRemoteNotInterested
  \/ \E v \in BOOLEAN : SetSnubbed(v)

SpecBits == InitBits /\ [][NextBits]_vars

\* The bits of the last byte past the last piece are zero.
TrailingZero(bf) ==
  \A k \in 0..7 : (8 * (Len(bf) - 1) + k >= NumPieces) => ByteBit(bf[Len(bf)], k) = 0

\* C20: the bitfield of an initialized peer has size_bytes(piece count) bytes,
\* and the bits of its last byte past the last piece are zero, after
\* initialize and after any bitfield message accepted from the remote.
C20_BitfieldWellFormed ==
  pc.fd => /\ Len(pc.bitfield) = size_bytes(NumPieces)
           /\ TrailingZero(pc.bitfield)

\* The size half of C20, which the source keeps: a message of another length
\* is refused with a network_error and leaves the bitfield alone.
C20_SizeKept ==
  /\ [](pc.fd => Len(pc.bitfield) = size_bytes(NumPieces))
  /\ [][(op'.name = "read_bitfield_from_buffer" /\ op'.t # size_bytes(NumPieces)) =>
          (err' = "network_error" /\ pc' = pc)]_vars

\* A complete bitfield message whose last byte has bits set past the last
\* piece has been accepted.
C20_Witness ==
  /\ op.name \in {"read_bitfield_from_buffer", "read_bitfield_body"}
  /\ ret = 1
  /\ err = ""
  /\ ~TrailingZero(pc.bitfield)

\* ------------------------------------------------------------------ SpecLife
\* The life of a connection: initialize, the chunks it pins while it
\* transfers, and its destruction.

\* down_chunk_release / up_chunk_release; dir is "down" or "up".  The result
\* is the connection and the calls made on the chunk list.
chunk_release(p, dir, handle) ==
  IF handle.valid
  THEN [pc |-> [p EXCEPT !.chunkList[dir][handle.index] = @ - 1], calls |-> <<"release">>]
  ELSE [pc |-> p, calls |-> <<>>]

down_chunk_release(p) ==
  LET r == chunk_release(p, "down", p.m_downChunk)
  IN  [pc |-> [r.pc EXCEPT !.m_downChunk = IF p.m_downChunk.valid THEN NoHandle ELSE @],
       calls |-> r.calls]

up_chunk_release(p) ==
  LET r == chunk_release(p, "up", p.m_upChunk)
  IN  [pc |-> [r.pc EXCEPT !.m_upChunk = IF p.m_upChunk.valid THEN NoHandle ELSE @],
       calls |-> r.calls]

\* ChunkList::get(index, writable): a pinned handle when ok, and a handle that
\* is not valid when the chunk cannot be mapped.
chunk_list_get(p, dir, index, ok) ==
  IF ok
  THEN [pc |-> [p EXCEPT !.chunkList[dir][index] = @ + 1],
        handle |-> [valid |-> TRUE, index |-> index]]
  ELSE [pc |-> p, handle |-> NoHandle]

\* load_down_chunk taking the new pin without releasing the one it holds.
load_down_chunk_no_release(p, piece, ok) ==
  LET p1 == [p EXCEPT !.m_downPiece = piece]
  IN  IF ~is_valid_piece(piece)
      THEN [pc |-> p1, err |-> "internal_error", calls |-> <<>>]
      ELSE IF p1.m_downChunk.valid /\ piece.index = p1.m_downChunk.index
      THEN [pc |-> p1, err |-> "", calls |-> <<>>]
      ELSE LET g == chunk_list_get(p1, "down", piece.index, ok)
           IN  [pc |-> [g.pc EXCEPT !.m_downChunk = g.handle],
                err |-> IF g.handle.valid THEN "" ELSE "storage_error",
                calls |-> <<"get">>]

\* PeerConnectionBase::load_down_chunk
load_down_chunk(p, piece, ok) ==
  LET p1 == [p EXCEPT !.m_downPiece = piece]
  IN  IF ~is_valid_piece(piece)
      THEN [pc |-> p1, err |-> "internal_error", calls |-> <<>>]
      ELSE IF p1.m_downChunk.valid /\ piece.index = p1.m_downChunk.index
      THEN [pc |-> p1, err |-> "", calls |-> <<>>]
      ELSE LET r == down_chunk_release(p1)
               g == chunk_list_get(r.pc, "down", piece.index, ok)
           IN  [pc |-> [g.pc EXCEPT !.m_downChunk = g.handle],
                err |-> IF g.handle.valid THEN "" ELSE "storage_error",
                calls |-> r.calls \o <<"get">>]

\* PeerConnectionBase::load_up_chunk, for the piece in m_upPiece
load_up_chunk(p, ok) ==
  IF p.m_upChunk.valid /\ p.m_upChunk.index = p.m_upPiece.index
  THEN [pc |-> p, err |-> "", calls |-> <<>>]
  ELSE LET r == up_chunk_release(p)
           g == chunk_list_get(r.pc, "up", p.m_upPiece.index, ok)
       IN  [pc |-> [g.pc EXCEPT !.m_upChunk = g.handle],
            err |-> IF g.handle.valid THEN "" ELSE "storage_error",
            calls |-> r.calls \o <<"get">>]

\* The fields of the record that belong to the collaborators and outlive the
\* connection: the poller, the choke manager, the chunk list and Content.
Collaborators == {"poll", "choke", "chunkList", "have"}

\* The destructor leaving the chunk pins alone.
destroy_keep_pins(p) ==
  IF ~p.fd
  THEN [pc |-> p, err |-> "", calls |-> <<>>]
  ELSE [pc |-> [f \in DOMAIN p |->
                  IF f = "poll" THEN [read |-> FALSE, write |-> FALSE, error |-> FALSE]
                  ELSE IF f = "choke" THEN [connected |-> FALSE, interested |-> FALSE]
                  ELSE IF f \in Collaborators THEN p[f]
                  ELSE DefaultPeer[f]],
        err |-> "",
        calls |-> <<"disconnected", "remove_read", "remove_write", "remove_error",
                    "cancel", "erase", "erase">>]

\* PeerConnectionBase::~PeerConnectionBase: the collaborators afterwards, the
\* exception and the calls made on the collaborators.  What is left of the
\* connection itself is what the constructor of the next one makes.
destroy(p) ==
  IF ~p.fd
  THEN [pc |-> p, err |-> "", calls |-> <<>>]
  ELSE IF ~p.m_download
  THEN [pc |-> p, err |-> "internal_error", calls |-> <<>>]
  ELSE LET p1 == [p EXCEPT !.choke = [connected |-> FALSE, interested |-> FALSE],
                           !.poll = [read |-> FALSE, write |-> FALSE, error |-> FALSE],
                           !.fd = FALSE]
           u == up_chunk_release(p1)
           d == down_chunk_release(u.pc)
           p2 == [d.pc EXCEPT !.m_requestList = <<>>,
                              !.m_upThrottle.listed = FALSE,
                              !.m_downThrottle.listed = FALSE,
                              !.m_up.state = "INTERNAL_ERROR",
                              !.m_down.state = "INTERNAL_ERROR"]
       IN  [pc |-> [f \in DOMAIN p |-> IF f \in Collaborators THEN p2[f] ELSE DefaultPeer[f]],
            err |-> "",
            calls |-> <<"disconnected", "remove_read", "remove_write", "remove_error">>
                        \o u.calls \o d.calls \o <<"cancel", "erase", "erase">>]

\* A connection just constructed; Content has every piece.
InitLife ==
  /\ NoTrackers
  /\ pc = [DefaultPeer EXCEPT !.have = 0..(NumPieces - 1)]

\* PeerConnectionBase::initialize
Initialize ==
  /\ IF pc.fd
     THEN pc' = pc /\ err' = "internal_error"
     ELSE pc' = initialize(pc) /\ err' = ""
  /\ op' = PeerOp("initialize", 0, NoPiece)
  /\ ret' = 0
  /\ calls' = <<>>
  /\ UNCHANGED trackerAll

\* The connection list hands the new connection to the choke manager.
ChokeConnect ==
  /\ pc.fd
  /\ ~pc.choke.connected
  /\ pc' = [pc EXCEPT !.choke.connected = TRUE]
  /\ op' = PeerOp("connected", 0, NoPiece)
  /\ ret' = 0
  /\ err' = ""
  /\ calls' = <<>>
  /\ UNCHANGED trackerAll

\* Throttle::insert: the node enters its throttle's list when a transfer of
\* piece data starts.
ThrottleInsert(dir) ==
  /\ pc.fd
  /\ ~(IF dir = "down" THEN pc.m_downThrottle.listed ELSE pc.m_upThrottle.listed)
  /\ pc' = IF dir = "down"
           THEN [pc EXCEPT !.m_downThrottle.listed = TRUE, !.m_downThrottle.active = TRUE]
           ELSE [pc EXCEPT !.m_upThrottle.listed = TRUE, !.m_upThrottle.active = TRUE]
  /\ op' = PeerOp("throttle_insert", IF dir = "down" THEN 0 ELSE 1, NoPiece)
  /\ ret' = 0
  /\ err' = ""
  /\ calls' = <<>>
  /\ UNCHANGED trackerAll

LoadDownChunk(piece, ok) ==
  /\ pc.fd
  /\ LET r == load_down_chunk(pc, piece, ok)
     IN  /\ pc' = r.pc
         /\ err' = r.err
         /\ calls' = r.calls
  /\ op' = PeerOp("load_down_chunk", IF ok THEN 1 ELSE 0, piece)
  /\ ret' = 0
  /\ UNCHANGED trackerAll

\* load_up_chunk follows a write_prepare_piece that accepted the piece and
\* left it in m_upPiece.
LoadUpChunk(piece, ok) ==
  /\ pc.fd
  /\ is_valid_piece(piece)
  /\ has_chunk(pc, piece.index)
  /\ LET r == load_up_chunk([pc EXCEPT !.m_upPiece = piece], ok)
     IN  /\ pc' = r.pc
         /\ err' = r.err
         /\ calls' = r.calls
  /\ op' = PeerOp("load_up_chunk", IF ok THEN 1 ELSE 0, piece)
  /\ ret' = 0
  /\ UNCHANGED trackerAll

DownChunkRelease ==
  /\ pc.fd
  /\ LET r == down_chunk_release(pc)
     IN  /\ pc' = r.pc
         /\ calls' = r.calls
  /\ op' = PeerOp("down_chunk_release", 0, NoPiece)
  /\ ret' = 0
  /\ err' = ""
  /\ UNCHANGED trackerAll

UpChunkRelease ==
  /\ pc.fd
  /\ LET r == up_chunk_release(pc)
     IN  /\ pc' = r.pc
         /\ calls' = r.calls
  /\ op' = PeerOp("up_chunk_release", 0, NoPiece)
  /\ ret' = 0
  /\ err' = ""
  /\ UNCHANGED trackerAll

\* The connection is deleted; op.t is the number of requests it had
\* outstanding.
Destroy ==
  /\ LET r == destroy(pc)
     IN  /\ pc' = r.pc
         /\ err' = r.err
         /\ calls' = r.calls
  /\ op' = PeerOp("destroy", Len(pc.m_requestList), NoPiece)
  /\ ret' = 0
  /\ UNCHANGED trackerAll

\* try_request_pieces with the delegator offering one block at most.
LifeTryRequestPieces(d) ==
  /\ pc.fd
  /\ TryRequestPieces(d, 1)

\* The bitfield message of a seed, complete in the read buffer.
LifeReadBitfield ==
  LET buf == BitFieldOf(NumPieces, 0..(NumPieces - 1))
  IN  ReadBitfieldFromBuffer(Len(buf), buf)

\* A block of a piece arrives and its chunk is mapped.
LifeLoadDownChunk(piece) ==
  /\ is_valid_piece(piece)
  /\ piece.offset = 0
  /\ LoadDownChunk(piece, TRUE)

NextLife ==
  \/ Initialize
  \/ ChokeConnect
  \/ \E dir \in {"down", "up"} : ThrottleInsert(dir)
  \/ \E piece \in Blocks : LifeLoadDownChunk(piece)
  \/ \E piece \in Pieces : LoadUpChunk(piece, TRUE)
  \/ LifeReadBitfield
  \/ \E d \in {s \in Delegations : Len(s) <= 1} : LifeTryRequestPieces(d)
  \/ Destroy

\* The chunks a connection pins: any sequence of loads and releases.
InitChunk ==
  /\ NoTrackers
  /\ pc \in {[initialize(DefaultPeer) EXCEPT !.have = h] : h \in SUBSET (0..(NumPieces - 1))}

NextChunk ==
  \/ \E piece \in Blocks, ok \in BOOLEAN : LoadDownChunk(piece, ok)
  \/ \E piece \in Pieces, ok \in BOOLEAN : LoadUpChunk(piece, ok)
  \/ DownChunkRelease
  \/ UpChunkRelease

SpecChunk == InitChunk /\ [][NextChunk]_vars

SpecLife == InitLife /\ [][NextLife]_vars

\* The pins the chunk list holds in one direction are exactly the one of the
\* handle, when it is valid.
PinsMatch(pins, handle) ==
  \A i \in DOMAIN pins : pins[i] = IF handle.valid /\ handle.index = i THEN 1 ELSE 0

\* C16: a valid handle is pinned and nothing else is, so the peer holds at
\* most one writable and one read-only pin and gets and releases balance;
\* loading the index already pinned calls the chunk list not at all, loading
\* another index releases the pin held before it gets the new one, and after a
\* get that failed (storage_error) the handle of that direction is not valid.
C16_ChunkPins ==
  /\ [](/\ PinsMatch(pc.chunkList.down, pc.m_downChunk)
        /\ PinsMatch(pc.chunkList.up, pc.m_upChunk))
  /\ [][/\ (op'.name = "load_down_chunk" /\ is_valid_piece(op'.a)) =>
            /\ (pc.m_downChunk.valid /\ pc.m_downChunk.index = op'.a.index) =>
                 (calls' = <<>> /\ err' = "" /\ pc'.m_downChunk = pc.m_downChunk)
            /\ (pc.m_downChunk.valid /\ pc.m_downChunk.index # op'.a.index) =>
                 calls' = <<"release", "get">>
            /\ (~pc.m_downChunk.valid) => calls' = <<"get">>
            /\ (err' = "storage_error") <=> (calls' # <<>> /\ op'.t = 0)
            /\ (err' = "storage_error") => ~pc'.m_downChunk.valid
            /\ (err' = "" ) => (pc'.m_downChunk = [valid |-> TRUE, index |-> op'.a.index])
        /\ (op'.name = "load_up_chunk") =>
            /\ (pc.m_upChunk.valid /\ pc.m_upChunk.index = op'.a.index) =>
                 (calls' = <<>> /\ err' = "" /\ pc'.m_upChunk = pc.m_upChunk)
            /\ (pc.m_upChunk.valid /\ pc.m_upChunk.index # op'.a.index) =>
                 calls' = <<"release", "get">>
            /\ (~pc.m_upChunk.valid) => calls' = <<"get">>
            /\ (err' = "storage_error") <=> (calls' # <<>> /\ op'.t = 0)
            /\ (err' = "storage_error") => ~pc'.m_upChunk.valid
            /\ (err' = "" ) => (pc'.m_upChunk = [valid |-> TRUE, index |-> op'.a.index])
        /\ (op'.name = "down_chunk_release") =>
            (~pc'.m_downChunk.valid /\ pc'.m_upChunk = pc.m_upChunk)
        /\ (op'.name = "up_chunk_release") =>
            (~pc'.m_upChunk.valid /\ pc'.m_downChunk = pc.m_downChunk)
       ]_vars

\* The peer holds a writable pin of one piece and a read-only pin of another,
\* and the load of the writable one released the pin it held before.
C16_Witness ==
  /\ op.name = "load_down_chunk"
  /\ calls = <<"release", "get">>
  /\ err = ""
  /\ pc.m_downChunk.valid
  /\ pc.m_upChunk.valid
  /\ pc.m_upChunk.index # pc.m_downChunk.index

\* Nothing of the connection is registered with a collaborator.
Unregistered(p) ==
  /\ ~p.poll.read /\ ~p.poll.write /\ ~p.poll.error
  /\ ~p.choke.connected /\ ~p.choke.interested
  /\ ~p.m_upThrottle.listed /\ ~p.m_downThrottle.listed
  /\ \A i \in 0..(NumPieces - 1) : p.chunkList.down[i] = 0 /\ p.chunkList.up[i] = 0
  /\ ~p.m_upChunk.valid /\ ~p.m_downChunk.valid
  /\ p.m_requestList = <<>>

\* C17: the destructor of an initialized connection leaves it in none of the
\* poller's sets, unknown to the choke manager, with its throttle nodes in
\* neither throttle list, without a chunk pin and without outstanding
\* requests; a connection that is not initialized is registered nowhere.
C17_DestroyedUnregistered ==
  /\ [](~pc.fd => Unregistered(pc))
  /\ [][(op'.name = "destroy" /\ pc.fd) =>
          /\ ~pc'.fd
          /\ err' = ""
          /\ Unregistered(pc')
          /\ SubSeq(calls', Len(calls') - 2, Len(calls')) = <<"cancel", "erase", "erase">>]_vars

\* A connection that was watched by the poller, known to the choke manager,
\* in both throttle lists, with two chunks pinned and a request outstanding
\* has been destroyed.
C17_Witness ==
  /\ op.name = "destroy"
  /\ op.t > 0
  /\ ~pc.fd
  /\ calls = <<"disconnected", "remove_read", "remove_write", "remove_error",
               "release", "release", "cancel", "erase", "erase">>

\* ------------------------------------------------------------------ SpecThrottle
\* The transfer of piece data under the throttles.

\* Throttle::is_throttled
is_throttled(n) == n.listed

\* Throttle::node_quota
node_quota(n) == n.quota

\* Throttle::node_used: the bytes are debited from the node's slice.
node_used(n, bytes) ==
  [n EXCEPT !.quota = Max(0, @ - bytes), !.used = @ + bytes, !.last = bytes]

\* Throttle::node_deactivate
node_deactivate(n) == [n EXCEPT !.active = FALSE]

\* down_chunk asking the stream for what is left of the piece, whatever the
\* quota.
down_chunk_no_quota(p, avail) ==
  IF ~is_throttled(p.m_downThrottle)
  THEN [pc |-> p, ret |-> 0, err |-> "internal_error"]
  ELSE LET bytes == Min(p.m_downPiece.length - p.m_down.position, avail)
           q == [p EXCEPT !.m_down.position = @ + bytes,
                          !.m_downThrottle = node_used(@, bytes)]
       IN  [pc |-> q,
            ret |-> IF q.m_down.position = q.m_downPiece.length THEN 1 ELSE 0,
            err |-> ""]

\* PeerConnectionBase::down_chunk; avail is what the stream yields.  The chunk
\* was taken with get(index, true) and is writable.
down_chunk(p, avail) ==
  IF ~is_throttled(p.m_downThrottle)
  THEN [pc |-> p, ret |-> 0, err |-> "internal_error"]
  ELSE IF node_quota(p.m_downThrottle) = 0
  THEN [pc |-> [p EXCEPT !.poll.read = FALSE,
                         !.m_downThrottle = node_deactivate(@)],
        ret |-> 0, err |-> ""]
  ELSE LET quota == Min(node_quota(p.m_downThrottle), p.m_downPiece.length - p.m_down.position)
           left == quota - Min(quota, avail)
           bytes == quota - left
           q == [p EXCEPT !.m_down.position = @ + bytes,
                          !.m_downThrottle = node_used(@, bytes)]
       IN  [pc |-> q,
            ret |-> IF q.m_down.position = q.m_downPiece.length THEN 1 ELSE 0,
            err |-> ""]

\* PeerConnectionBase::down_chunk_from_buffer; buffered is
\* m_down->buffer()->remaining().
down_chunk_from_buffer(p, buffered) ==
  LET quota == Min(buffered, p.m_downPiece.length - p.m_down.position)
      left == 0
      bytes == quota - left
      q == [p EXCEPT !.m_down.position = @ + bytes,
                     !.m_downThrottle = node_used(@, bytes)]
  IN  [pc |-> q,
       ret |-> IF q.m_down.position = q.m_downPiece.length THEN 1 ELSE 0,
       err |-> ""]

\* PeerConnectionBase::up_chunk; avail is what the stream takes.  The chunk was
\* taken with get(index, false) and is readable.
up_chunk(p, avail) ==
  IF ~is_throttled(p.m_upThrottle)
  THEN [pc |-> p, ret |-> 0, err |-> "internal_error"]
  ELSE IF node_quota(p.m_upThrottle) = 0
  THEN [pc |-> [p EXCEPT !.poll.write = FALSE,
                         !.m_upThrottle = node_deactivate(@)],
        ret |-> 0, err |-> ""]
  ELSE LET quota == Min(node_quota(p.m_upThrottle), p.m_upPiece.length - p.m_up.position)
           left == quota - Min(quota, avail)
           bytes == quota - left
           q == [p EXCEPT !.m_up.position = @ + bytes,
                          !.m_upThrottle = node_used(@, bytes)]
       IN  [pc |-> q,
            ret |-> IF q.m_up.position = q.m_upPiece.length THEN 1 ELSE 0,
            err |-> ""]

\* The activate slot of the down node forgetting the poller.
receive_throttle_down_activate_idle(p) == p

\* PeerConnectionBase::receive_throttle_down_activate
receive_throttle_down_activate(p) == [p EXCEPT !.poll.read = TRUE]

\* PeerConnectionBase::receive_throttle_up_activate
receive_throttle_up_activate(p) == [p EXCEPT !.poll.write = TRUE]

\* The block in transfer: MaxQuota bytes of piece 0.
TransferPiece == [index |-> 0, offset |-> 0, length |-> MaxQuota]

\* A connection in the middle of receiving a block and of sending one: both
\* chunks are pinned, nothing of either block has moved yet, and the throttle
\* nodes are in their lists or not yet.
InitThrottle ==
  /\ NoTrackers
  /\ \E dl \in BOOLEAN, ul \in BOOLEAN :
       LET p0 == [initialize(DefaultPeer) EXCEPT !.have = 0..(NumPieces - 1),
                                                 !.m_upPiece = TransferPiece,
                                                 !.m_down.state = "READ_PIECE",
                                                 !.m_up.state = "WRITE_PIECE",
                                                 !.m_downThrottle.listed = dl,
                                                 !.m_downThrottle.active = dl,
                                                 !.m_upThrottle.listed = ul,
                                                 !.m_upThrottle.active = ul]
           p1 == load_down_chunk(p0, TransferPiece, TRUE).pc
       IN  pc = load_up_chunk(p1, TRUE).pc

\* event_read with piece data expected from the stream: the poller calls it
\* only while the connection has read interest.
DownChunk(avail) ==
  /\ pc.poll.read
  /\ LET r == down_chunk(pc, avail)
     IN  /\ pc' = r.pc
         /\ ret' = r.ret
         /\ err' = r.err
  /\ op' = PeerOp("down_chunk", node_quota(pc.m_downThrottle), NoPiece)
  /\ calls' = <<>>
  /\ UNCHANGED trackerAll

\* event_read with piece data left in the read buffer.
DownChunkFromBuffer(buffered) ==
  /\ pc.poll.read
  /\ LET r == down_chunk_from_buffer(pc, buffered)
     IN  /\ pc' = r.pc
         /\ ret' = r.ret
         /\ err' = r.err
  /\ op' = PeerOp("down_chunk_from_buffer", node_quota(pc.m_downThrottle), NoPiece)
  /\ calls' = <<>>
  /\ UNCHANGED trackerAll

\* event_write with piece data to send: the poller calls it only while the
\* connection has write interest.
UpChunk(avail) ==
  /\ pc.poll.write
  /\ LET r == up_chunk(pc, avail)
     IN  /\ pc' = r.pc
         /\ ret' = r.ret
         /\ err' = r.err
  /\ op' = PeerOp("up_chunk", node_quota(pc.m_upThrottle), NoPiece)
  /\ calls' = <<>>
  /\ UNCHANGED trackerAll

\* The refill tick of the throttles: every listed node gets a new slice, and a
\* node that was deactivated is activated again and its activate slot invoked.
RefillTick(dq, uq) ==
  LET dn == pc.m_downThrottle
      un == pc.m_upThrottle
      wakeDown == dn.listed /\ ~dn.active
      wakeUp == un.listed /\ ~un.active
      p1 == [pc EXCEPT !.m_downThrottle = IF dn.listed THEN [@ EXCEPT !.quota = dq, !.used = 0, !.active = TRUE] ELSE @,
                       !.m_upThrottle = IF un.listed THEN [@ EXCEPT !.quota = uq, !.used = 0, !.active = TRUE] ELSE @]
      p2 == IF wakeDown THEN receive_throttle_down_activate(p1) ELSE p1
      p3 == IF wakeUp THEN receive_throttle_up_activate(p2) ELSE p2
  IN  /\ pc' = p3
      /\ op' = PeerOp("refill", 0, NoPiece)
      /\ calls' = (IF wakeDown THEN <<"receive_throttle_down_activate">> ELSE <<>>)
                    \o (IF wakeUp THEN <<"receive_throttle_up_activate">> ELSE <<>>)
      /\ ret' = 0
      /\ err' = ""
      /\ UNCHANGED trackerAll

NextThrottle ==
  \/ \E avail \in 0..MaxQuota : DownChunk(avail)
  \/ \E buffered \in 0..MaxQuota : DownChunkFromBuffer(buffered)
  \/ \E avail \in 0..MaxQuota : UpChunk(avail)
  \/ \E dir \in {"down", "up"} : ThrottleInsert(dir)
  \/ \E dq \in 0..MaxQuota, uq \in 0..MaxQuota : RefillTick(dq, uq)

SpecThrottle == InitThrottle /\ [][NextThrottle]_vars

\* The refill is driven by a periodic timer: the tick keeps firing.
SpecThrottleLive ==
  /\ InitThrottle
  /\ [][NextThrottle]_vars
  /\ WF_vars(\E dq \in 0..MaxQuota, uq \in 0..MaxQuota : RefillTick(dq, uq))

\* The transfer steps.
TransferOps == {"down_chunk", "down_chunk_from_buffer", "up_chunk"}

\* The throttle node and the protocol half a transfer step works on.
StepNode(p, name) == IF name = "up_chunk" THEN p.m_upThrottle ELSE p.m_downThrottle

StepPosition(p, name) == IF name = "up_chunk" THEN p.m_up.position ELSE p.m_down.position

\* The bytes debited from the node between two states.
StepDebit(p, q, name) == StepNode(q, name).used - StepNode(p, name).used

\* C18 as stated: in every transfer step the bytes debited with node_used are
\* at most the quota that node_quota grants the node for the step.
C18_Original ==
  [][(op'.name \in TransferOps /\ err' = "") =>
       StepDebit(pc, pc', op'.name) <= node_quota(StepNode(pc, op'.name))]_vars

\* C18 as amended: down_chunk and up_chunk debit the bytes they moved, which
\* are at most the quota node_quota granted and at most what is left of the
\* block, and debit nothing when the quota is 0; down_chunk_from_buffer never
\* asks for the quota and debits the bytes it copied from the read buffer,
\* which are at most what is left of the block.
C18_QuotaRespected ==
  [][(op'.name \in TransferOps /\ err' = "") =>
       LET n == StepNode(pc, op'.name)
           debit == StepDebit(pc, pc', op'.name)
           moved == StepPosition(pc', op'.name) - StepPosition(pc, op'.name)
       IN  /\ op'.t = node_quota(n)
           /\ moved <= MaxQuota - StepPosition(pc, op'.name)
           /\ IF op'.name = "down_chunk_from_buffer"
              THEN debit = moved
              ELSE IF node_quota(n) = 0
              THEN moved = 0 /\ debit = 0
              ELSE debit = moved /\ debit <= node_quota(n)]_vars

\* down_chunk_from_buffer has debited more than the node's quota.
C18_Witness ==
  /\ op.name = "down_chunk_from_buffer"
  /\ err = ""
  /\ pc.m_downThrottle.last > op.t

\* C19: a down_chunk (up_chunk) that finds a quota of 0 moves nothing, takes
\* the read (write) interest out of the poller, deactivates the node and
\* returns false; read (write) interest comes back only with the activate slot
\* of the down (up) node; and with the refill tick firing, a deactivated node
\* is activated again and the interest is back.
C19_QuotaExhausted ==
  /\ [][/\ (op'.name = "down_chunk" /\ op'.t = 0 /\ err' = "") =>
            /\ ret' = 0
            /\ pc'.m_down.position = pc.m_down.position
            /\ ~pc'.poll.read
            /\ ~pc'.m_downThrottle.active
        /\ (op'.name = "up_chunk" /\ op'.t = 0 /\ err' = "") =>
            /\ ret' = 0
            /\ pc'.m_up.position = pc.m_up.position
            /\ ~pc'.poll.write
            /\ ~pc'.m_upThrottle.active
        /\ (~pc.poll.read /\ pc'.poll.read) =>
            "receive_throttle_down_activate" \in Range(calls')
        /\ (~pc.poll.write /\ pc'.poll.write) =>
            "receive_throttle_up_activate" \in Range(calls')
       ]_vars
  /\ (pc.m_downThrottle.listed /\ ~pc.m_downThrottle.active)
        ~> (pc.m_downThrottle.active /\ pc.poll.read)
  /\ (pc.m_upThrottle.listed /\ ~pc.m_upThrottle.active)
        ~> (pc.m_upThrottle.active /\ pc.poll.write)

\* The refill tick has activated the down node again, which a down_chunk
\* without quota had deactivated.
C19_Witness ==
  /\ op.name = "refill"
  /\ "receive_throttle_down_activate" \in Range(calls)
  /\ pc.poll.read
  /\ pc.m_downThrottle.active

\* ------------------------------------------------------------------ SpecLock
\* receive_success, receive_failed and receive_scrape_success statement by
\* statement, next to the tracker's worker thread, which takes the same lock.

\* The statements of receive_success past its guard, in order; slot: the host
\* has set m_slot_success (when it has not, the function returns early).
receive_success_steps(slot) ==
  <<"promote", "sort_unique",
    "lock", "success_time_last", "success_counter++", "failed_counter=0", "latest_sum_peers",
    "unlock">>
  \o (IF slot THEN <<"slot_success", "lock", "latest_new_peers", "unlock">> ELSE <<>>)

\* A plausible slip: the guard's scope is closed after the slot is called.
receive_failed_steps_slot_locked(slot) ==
  <<"lock", "failed_time_last", "failed_counter++">>
  \o (IF slot THEN <<"slot_failed">> ELSE <<>>) \o <<"unlock">>

\* The statements of receive_failed past its guard.
receive_failed_steps(slot) ==
  <<"lock", "failed_time_last", "failed_counter++", "unlock">>
  \o (IF slot THEN <<"slot_failed">> ELSE <<>>)

\* The statements of receive_scrape_success past its guard.
receive_scrape_success_steps(slot) ==
  <<"lock", "scrape_time_last", "scrape_counter++", "unlock">>
  \o (IF slot THEN <<"slot_scrape_success">> ELSE <<>>)

\* The statements that write a field of the worker's TrackerState.
StateWrites ==
  {"success_time_last", "success_counter++", "failed_counter=0", "latest_sum_peers",
   "latest_new_peers", "failed_time_last", "failed_counter++", "scrape_time_last",
   "scrape_counter++"}

\* The statements that call a slot of the host.
SlotCalls == {"slot_success", "slot_failed", "slot_scrape_success"}

\* The statements of the handler the main thread is inside.
Steps(th) ==
  CASE th.handler = "receive_success" -> receive_success_steps(slots.success)
    [] th.handler = "receive_failed" -> receive_failed_steps(slots.failed)
    [] th.handler = "receive_scrape_success" -> receive_scrape_success_steps(slots.scrape_success)
    [] OTHER -> <<>>

\* The statement the main thread is about to execute, "" when it is inside no
\* handler or at the handler's end.
Running(th) == IF th.at \in 1..Len(Steps(th)) THEN Steps(th)[th.at] ELSE ""

\* One write to the TrackerState s, as its statement reads.
state_write(instr, s, now, th) ==
  CASE instr = "success_time_last" -> [s EXCEPT !.success_time_last = seconds(now)]
    [] instr = "success_counter++" -> [s EXCEPT !.success_counter = @ + 1]
    [] instr = "failed_counter=0" -> [s EXCEPT !.failed_counter = 0]
    [] instr = "latest_sum_peers" -> [s EXCEPT !.latest_sum_peers = Len(th.l)]
    [] instr = "latest_new_peers" -> [s EXCEPT !.latest_new_peers = th.new_peers]
    [] instr = "failed_time_last" -> [s EXCEPT !.failed_time_last = seconds(now)]
    [] instr = "failed_counter++" -> [s EXCEPT !.failed_counter = @ + 1]
    [] instr = "scrape_time_last" -> [s EXCEPT !.scrape_time_last = seconds(now)]
    [] instr = "scrape_counter++" -> [s EXCEPT !.scrape_counter = @ + 1]
    [] OTHER -> s

\* How often each handler's counter is raised here.
MaxLockCount == 1

LockHandlers == {"receive_success", "receive_failed", "receive_scrape_success"}

\* The main thread enters a receive_* handler for tracker t: the guard throws, or
\* the first statement is next.  al, new_peers: the address list it is handed
\* and what the success slot will return.
LockEnter(h, t, done, al, new_peers) ==
  /\ thread.handler = ""
  /\ done => is_busy(worker[t])
  /\ h = "receive_success" => state[t].success_counter < MaxLockCount
  /\ h = "receive_failed" => state[t].failed_counter < MaxLockCount
  /\ h = "receive_scrape_success" => state[t].scrape_counter < MaxLockCount
  /\ worker' = [worker EXCEPT ![t] = Reported(t, done)]
  /\ IF ~receive_valid(list, t, Reported(t, done))
     THEN /\ err' = "internal_error"
          /\ UNCHANGED thread
     ELSE /\ err' = ""
          /\ thread' = [thread EXCEPT !.handler = h, !.tracker = t, !.at = 1,
                                      !.l = al, !.new_peers = new_peers]
  /\ op' = [name |-> h, t |-> t, a |-> done]
  /\ ret' = 0
  /\ calls' = <<>>
  /\ seen' = NoSeen
  /\ UNCHANGED <<orderVars, state, cachedTime, slots, hist, pc>>

\* The main thread executes the statement it is at; past the last one, or when
\* promote throws, it leaves the handler.  lock_guard() waits while the worker
\* thread holds the lock.
LockStep ==
  LET t == thread.tracker
      instr == Running(thread)
      p == promote(list, find(list, t))
      next == [thread EXCEPT !.at = @ + 1]
      left == [NoThread EXCEPT !.lock = thread.lock]
  IN  /\ thread.handler # ""
      /\ instr = "lock" => thread.lock[t] = "free"
      /\ thread' =
           CASE instr = "" -> left
             [] instr = "promote" /\ p.threw -> left
             [] instr = "sort_unique" -> [next EXCEPT !.l = unique(sort(thread.l))]
             [] instr = "lock" -> [next EXCEPT !.lock[t] = "list"]
             [] instr = "unlock" -> [next EXCEPT !.lock[t] = "free"]
             [] OTHER -> next
      /\ list' = IF instr = "promote" THEN p.list ELSE list
      /\ err' = IF instr = "promote" /\ p.threw THEN "internal_error" ELSE err
      /\ state' = [state EXCEPT ![t] = state_write(instr, @, cachedTime, thread)]
      /\ calls' = IF instr \in SlotCalls \cup {"lock", "unlock"}
                  THEN Append(calls, instr) ELSE calls
      /\ seen' = IF instr = "slot_success"
                 THEN [called |-> TRUE, tracker |-> t, addrs |-> thread.l,
                       list |-> list, state |-> state[t]]
                 ELSE seen
      /\ UNCHANGED <<group, worker, cachedTime, slots, op, ret, hist, pc>>

\* The worker thread of tracker t takes the worker's lock, once it is free.
WorkerLock(t) ==
  /\ thread.lock[t] = "free"
  /\ thread' = [thread EXCEPT !.lock[t] = "worker"]
  /\ UNCHANGED <<list, group, worker, state, cachedTime, slots, op, ret, err, calls, seen,
                 hist, pc>>

\* The worker thread of tracker t releases the lock it holds.
WorkerUnlock(t) ==
  /\ thread.lock[t] = "worker"
  /\ thread' = [thread EXCEPT !.lock[t] = "free"]
  /\ UNCHANGED <<list, group, worker, state, cachedTime, slots, op, ret, err, calls, seen,
                 hist, pc>>

\* The main thread, between two handlers, starts an announce on tracker t.
LockSendEvent(t) == thread.handler = "" /\ SendEvent(t, "STARTED")

\* The address lists handed to receive_success here: the empty one and a
\* longest one, in descending order.
LockLists == {<<>>, [i \in 1..MaxListLen |-> ((MaxListLen - i) % MaxAddr) + 1]}

InitLock == InitListed(BOOLEAN)

NextLock ==
  \/ \E h \in LockHandlers, done \in BOOLEAN, al \in LockLists, new_peers \in 0..MaxNewPeers :
       LockEnter(h, NumAnnounce, done, IF h = "receive_success" THEN al ELSE <<>>,
                 IF h = "receive_success" THEN new_peers ELSE 0)
  \/ LockStep
  \/ WorkerLock(NumAnnounce)
  \/ WorkerUnlock(NumAnnounce)
  \/ LockSendEvent(NumAnnounce)

SpecLock == InitLock /\ [][NextLock]_vars

\* C21: in receive_success, receive_failed and receive_scrape_success every
\* write to a tracker's statistics is made while the main thread holds that
\* worker's lock; the main thread holds the lock only while it is at one of
\* those writes or at the end of their block, and never while a slot of the
\* host runs.
C21_LockedWrites ==
  /\ [](\A t \in Trackers :
          thread.lock[t] = "list" =>
            /\ thread.tracker = t
            /\ Running(thread) \in StateWrites \cup {"unlock"})
  /\ [](Running(thread) \in SlotCalls => \A t \in Trackers : thread.lock[t] # "list")
  /\ [][\A t \in Trackers :
          (thread.handler # "" /\ state'[t] # state[t]) =>
            /\ thread.lock[t] = "list"
            /\ thread'.lock[t] = "list"
            /\ Running(thread) \in StateWrites]_vars

\* The success slot is about to run after the first block of writes, and the
\* worker thread has taken the lock the main thread released.
C21_Witness ==
  /\ Running(thread) = "slot_success"
  /\ state[thread.tracker].success_counter > 0
  /\ state[thread.tracker].latest_sum_peers = MaxAddr
  /\ thread.lock[thread.tracker] = "worker"

\* ------------------------------------------------------------------ SpecShould
\* should_request() on every combination of the values it reads.

\* A plausible slip: a rate of exactly 10 KiB/s still counts as too slow.
should_request_rate_inclusive(p) ==
  IF p.m_down.choked \/ ~p.m_up.interested THEN FALSE
  ELSE IF ~p.endgame THEN TRUE
  ELSE p.m_downStall <= 1 \/ p.down_rate <= 10 * Pow2(10)

\* PeerConnectionBase::should_request(); 10 << 10 is 10 * 2^10.
should_request(p) ==
  IF p.m_down.choked \/ ~p.m_up.interested THEN FALSE
  ELSE IF ~p.endgame THEN TRUE
  ELSE p.m_downStall <= 1 \/ p.down_rate < 10 * Pow2(10)

\* The largest stall count a peer has here.
MaxStall == 2

\* The download's rates here: none, and the ones next to 10 << 10.
RequestRates == {0} \cup {10 * Pow2(10) + d : d \in {-1, 0, 1}}

InitShould ==
  /\ NoTrackers
  /\ pc \in {[initialize(DefaultPeer) EXCEPT !.m_down.choked = c, !.m_up.interested = i,
                                             !.endgame = e, !.m_downStall = n,
                                             !.down_rate = r] :
              c \in BOOLEAN, i \in BOOLEAN, e \in BOOLEAN, n \in 0..MaxStall,
              r \in RequestRates}

ShouldRequest ==
  /\ ret' = IF should_request(pc) THEN 1 ELSE 0
  /\ op' = PeerOp("should_request", 0, NoPiece)
  /\ err' = ""
  /\ calls' = <<>>
  /\ UNCHANGED <<pc, trackerAll>>

\* The download enters or leaves endgame, and its rate changes.
DownloadChange(e, r) ==
  /\ pc' = [pc EXCEPT !.endgame = e, !.down_rate = r]
  /\ op' = PeerOp("download", r, NoPiece)
  /\ ret' = 0
  /\ err' = ""
  /\ calls' = <<>>
  /\ UNCHANGED trackerAll

NextShould ==
  \/ ShouldRequest
  \/ \E e \in BOOLEAN, r \in RequestRates : DownloadChange(e, r)

SpecShould == InitShould /\ [][NextShould]_vars

\* C22: should_request() is true exactly when the remote is not choking us, we
\* are interested, and the download is not in endgame or the peer's stall
\* count is at most 1 or the download's rate is below 10240 bytes a second.
C22_ShouldRequest ==
  op.name = "should_request" =>
    ((ret = 1) <=>
       /\ ~pc.m_down.choked
       /\ pc.m_up.interested
       /\ (~pc.endgame \/ pc.m_downStall <= 1 \/ pc.down_rate < 10240))

\* A stalled peer in endgame is refused at exactly 10240 bytes a second.
C22_Witness ==
  /\ op.name = "should_request"
  /\ ret = 0
  /\ ~pc.m_down.choked
  /\ pc.m_up.interested
  /\ pc.endgame
  /\ pc.m_downStall > 1
  /\ pc.down_rate = 10240

\* C23: a remote request is appended to the send list only when we are not
\* choking the remote and an equal block is not already queued; the send list
\* never holds two equal blocks nor a block longer than 2^17 bytes; a request
\* received while we choke the remote leaves the send list unchanged; after
\* read_cancel_piece(p) the block p is not in the send list.
C23_SendListSet ==
  /\ [](/\ \A i, j \in 1..Len(pc.m_sendList) :
             pc.m_sendList[i] = pc.m_sendList[j] => i = j
        /\ \A i \in 1..Len(pc.m_sendList) : pc.m_sendList[i].length <= 131072)
  /\ [][/\ (op'.name = "read_request_piece") =>
            (/\ pc.m_up.choked => pc'.m_sendList = pc.m_sendList
             /\ pc'.m_sendList # pc.m_sendList =>
                  /\ ~pc.m_up.choked
                  /\ op'.a \notin Range(pc.m_sendList)
                  /\ pc'.m_sendList = Append(pc.m_sendList, op'.a))
        /\ (op'.name # "read_request_piece") =>
            Range(pc'.m_sendList) \subseteq Range(pc.m_sendList)
        /\ (op'.name = "read_cancel_piece") =>
            (/\ op'.a \notin Range(pc'.m_sendList)
             /\ Range(pc'.m_sendList) = Range(pc.m_sendList) \ {op'.a})
       ]_vars

\* A block of legal length that is not queued was requested while we choke the
\* remote, and the blocks queued before the choke are still the send list.
C23_Witness ==
  /\ op.name = "read_request_piece"
  /\ pc.m_up.choked
  /\ op.a.length <= 131072
  /\ op.a \notin Range(pc.m_sendList)
  /\ Len(pc.m_sendList) > 1

\* C24: cycle_group(g) rotates group g by one: its first tracker moves to the
\* group's last position and every other tracker of the group moves one position
\* forward; trackers of other groups keep their positions, and when no tracker
\* has group g the list is unchanged.
C24_CycleGroupRotates ==
  [][(op'.name = "cycle_group") =>
       LET g == op'.a
           P == {i \in 1..Len(list) : group[list[i]] = g}
       IN  /\ Len(list') = Len(list)
           /\ \A i \in 1..Len(list) :
                IF i \notin P THEN list'[i] = list[i]
                ELSE IF i + 1 \in P THEN list'[i] = list[i + 1]
                ELSE list'[i] = list[CHOOSE f \in P : \A j \in P : f <= j]
           /\ P = {} => list' = list
    ]_vars

\* A group of at least two trackers was cycled, and a tracker of a later group
\* stands behind it.
C24_Witness ==
  /\ op.name = "cycle_group"
  /\ GroupSize(list, op.a) >= 2
  /\ \E i \in 1..Len(list) : group[list[i]] > op.a

\* C25: find_next_to_request(itr) returns end exactly when no tracker at or
\* after itr satisfies can_request_state; otherwise the tracker it returns is at
\* or after itr and satisfies can_request_state, and when the first such tracker
\* has failed_counter 0 that first tracker is the result.
C25_FindNextCandidate ==
  op.name = "find_next_to_request" =>
    LET C == {i \in op.a..Len(list) : can_request_state(worker[list[i]], state[list[i]])}
    IN  /\ (ret = End(list)) <=> (C = {})
        /\ C # {} =>
             /\ ret \in C
             /\ LET first == CHOOSE i \in C : \A j \in C : i <= j
                IN  state[list[first]].failed_counter = 0 => ret = first

\* The search started past a tracker that can be requested and returned the
\* first candidate, which has no failures, although a later candidate is due
\* earlier.
C25_Witness ==
  /\ op.name = "find_next_to_request"
  /\ op.a = 2
  /\ can_request_state(worker[list[1]], state[list[1]])
  /\ ret = 2
  /\ state[list[2]].failed_counter = 0
  /\ \E i \in 3..Len(list) :
       /\ can_request_state(worker[list[i]], state[list[i]])
       /\ state[list[i]].failed_counter = 0
       /\ success_time_next(state[list[i]]) < success_time_next(state[list[2]])

\* ------------------------------------------------------------------ SpecInterest
\* The operations that change what the choke manager is told, and the choke
\* we send, in any order.

NextInterest ==
  \/ \E v \in BOOLEAN : SetSnubbed(v)
  \/ SetRemoteInterested
  \/ SetRemoteNotInterested
  \/ \E v \in BOOLEAN : ReceiveChoke(v)

SpecInterest == InitSnub /\ [][NextInterest]_vars

\* C26: for a connected peer, across any interleaving of set_snubbed,
\* set_remote_interested and set_remote_not_interested, the notifications to
\* the choke manager strictly alternate, starting with set_interested, and after
\* each operation the choke manager holds the peer as interested exactly when
\* the remote is interested and the peer is not snubbed.  pc.choke.interested
\* is the notification made last: FALSE before the first one and after
\* set_not_interested, TRUE after set_interested.
C26_NotificationsAlternate ==
  /\ [](pc.choke.connected =>
          (pc.choke.interested <=> (pc.m_down.interested /\ ~pc.m_snubbed)))
  /\ [][(op'.name \in {"set_snubbed", "set_remote_interested", "set_remote_not_interested"}) =>
          /\ Len(calls') <= 1
          /\ \A i \in 1..Len(calls') :
               /\ calls'[i] \in {"set_interested", "set_not_interested"}
               /\ (calls'[i] = "set_interested") <=> ~pc.choke.interested
               /\ pc'.choke.interested = (calls'[i] = "set_interested")
          /\ calls' = <<>> => pc'.choke.interested = pc.choke.interested
       ]_vars

\* Un-snubbing a peer whose remote is interested tells the choke manager
\* set_interested again, after the set_not_interested of the snub.
C26_Witness ==
  /\ op.name = "set_snubbed"
  /\ op.t = 0
  /\ calls = <<"set_interested">>
  /\ pc.choke.interested
  /\ pc.m_down.interested

\* ------------------------------------------------------------------ SpecGuard
\* Results reported for a listed tracker, idle or busy, and for a tracker that
\* is not in the list.

GuardTrackers == {NumAnnounce, NumTrackers}

NextGuard ==
  \/ SendEvent(NumAnnounce, "STARTED")
  \/ SendScrape(NumAnnounce)
  \/ \E t \in GuardTrackers, done \in BOOLEAN : ReceiveSuccess(t, done, <<>>, 0)
  \/ \E t \in GuardTrackers, done \in BOOLEAN : ReceiveFailed(t, done)
  \/ \E t \in GuardTrackers, done \in BOOLEAN : ReceiveScrapeSuccess(t, done)
  \/ \E t \in GuardTrackers, done \in BOOLEAN : ReceiveScrapeFailed(t, done)

InitGuard == InitListed(BOOLEAN)

SpecGuard == InitGuard /\ [][NextGuard]_vars

\* C27: receive_success, receive_failed, receive_scrape_success and
\* receive_scrape_failed raise internal_error when the tracker is not in the
\* list or is still busy, and then they change neither the list order nor any
\* counter or timestamp and call no slot of the host.
C27_InvalidThrows ==
  [][(/\ op'.name \in {"receive_success", "receive_failed", "receive_scrape_success",
                       "receive_scrape_failed"}
      /\ (find(list, op'.t) = End(list) \/ is_busy(worker'[op'.t]))) =>
       /\ err' = "internal_error"
       /\ list' = list
       /\ state' = state
       /\ calls' = <<>>
    ]_vars

\* receive_failed was refused for a listed tracker that is still busy and has
\* failed before.
C27_Witness ==
  /\ op.name = "receive_failed"
  /\ err = "internal_error"
  /\ op.t \in Range(list)
  /\ is_busy(worker[op.t])
  /\ state[op.t].failed_counter > 0
  /\ calls = <<>>

====
